---- MODULE Spec2Model ----
(***************************************************************************)
(* DeviceNet master: the messaging layer of devicenet/link.py over the     *)
(* packet codec of devicenet/packets.py.  One call of service_request,     *)
(* cos_write or cos_read runs against a bus that, at every receive, either *)
(* times out or delivers a frame.  Frames are byte sequences; the listener *)
(* filter of the CAN driver is taken to pass only the identifier the call  *)
(* listens on, so a received frame is represented by its payload.          *)
(* The slave is either free (any frame or none at every receive) or        *)
(* scripted (it sends a fixed sequence of frames, then is silent).  Apart  *)
(* from the calls, a packet of any variant can be built to a frame and     *)
(* parsed back.  Above the link layer, the nodes of the master and their    *)
(* connection objects allocate and release connections, one operation      *)
(* after the other, over the connection table of cip/base.py.  The         *)
(* conversions of network/addressing.py and convert.py are applied to      *)
(* inputs in and next to their valid ranges.                               *)
(***************************************************************************)
EXTENDS Integers, Sequences, FiniteSets, TLC

VARIABLES
    pc,            \* position of the running call
    call,          \* arguments of the running call
    listening,     \* CAN identifiers the interface listens on
    trace,         \* events of the call, in order: listen, tx, rx, timeout, hook, unlisten
    frags,         \* send_message: the frames to put on the bus
    fi,            \* send_message: index of the next frame of frags
    ack_i,         \* wait_fragment_ack: loop index i
    msg_in,        \* the value of the last interface.recv
    result,        \* wait_response / cos_write / cos_read: result
    stream,        \* read_fragment: stream
    prev_counter,  \* read_fragment: prev_counter
    rf_n,          \* read_fragment: frames received so far (bounded by MaxFrag)
    dropped,       \* wait_response: has it discarded a frame and received again
    bus,           \* the slave of the call: scripted or free, and the frames it still sends
    codec,         \* the packet built, its frame, and the packet parsed from the frame
    outcome,       \* "running", "return" or the name of the exception raised
    retval,        \* the returned value
    errcode,       \* CipError.code of the exception raised (-1: none)
    connections,   \* CipObject.connections: instance -> connection object or None
    op,            \* the operation of a node or connection object that is running
    ops,           \* operations of nodes and connection objects finished so far
    ret,           \* what allocate or release of an object gave its caller
    xids,          \* xid of the last request of each master to each slave
    conv,          \* the conversion applied: function, input, output, and the output converted back
    hist           \* the operations of nodes and connection objects that have returned, in order

vars == <<pc, call, listening, trace, frags, fi, ack_i, msg_in, result, stream,
          prev_counter, rf_n, dropped, bus, codec, outcome, retval, errcode,
          connections, op, ops, ret, xids, conv, hist>>

----------------------------------------------------------------------------
\* Bounds of the model

\* frames the bus delivers to one read_fragment call before it falls silent
MaxFrag == 2

\* longest service data of a fragmented message a scripted slave answers with
MaxLen == 14

\* service data of a long explicit message: with its 3 header bytes, 65 fragments
LongData == 382

\* data of a long I/O message: 65 fragments
LongIo == 449

\* operations of nodes and connection objects in one behaviour
MaxOps == 2

\* UTF-8 bytes of the longest string that is converted
MaxString == 256

----------------------------------------------------------------------------
\* Program constants

MASTER_ADDR == 0
SLAVE_ADDR == 1
MNS_ID == 1028
DUPMAC == 7
IDENTITY_ID == 1
IDENTITY_DEFAULT_INSTANCE == 1
SERVICE_RESET == 5
SERVICE_GET_ATTR_SINGLE == 14
SERVICE_SET_ATTR_SINGLE == 16
SERVICE_ALLOCATE == 75
SERVICE_RELEASE == 76
DEVICENET_ID == 3
DEVICENET_DEFAULT_INSTANCE == 1
ALLOC_EXPLICIT == 1
ALLOC_POLL == 2
ALLOC_BITSTROBE == 4
ALLOC_MPOLL == 8
ALLOC_COS == 16
ALLOC_CYCLIC == 32
ALLOC_ACKSUP == 64
SERVICE_ERROR == 20
SERVICE_LAST_VALID_CODE == 127
INVALID_REPLY_RECEIVED == 34
FRAGMENT_ENABLED == 1
FRAGMENT_MAX_COUNT == 63
TYPE_START == 0
TYPE_MIDDLE == 1
TYPE_FINAL == 2
TYPE_ACK == 3
MAX_ERROR_TAG == 46
ACK_ATTEMPTS == 2
EXPLICIT_DATA_LENGTH == 6
IO_DATA_LENGTH == 7
MAX_PACKET_SIZE == 8
GroupError == -1

\* Optional values: Python's None and a present value
None == [some |-> FALSE, data |-> <<>>]
Some(d) == [some |-> TRUE, data |-> d]

\* Python's s[a:b] on a list
PySlice(s, a, b) ==
    LET e == IF b < Len(s) THEN b ELSE Len(s)
    IN  IF a >= e THEN <<>> ELSE SubSeq(s, a + 1, e)

----------------------------------------------------------------------------
\* network/addressing.py

\* an addressing that puts every identifier in group 2
CanAddrGroup2(msg_group, msg_id, mac) == 1024 + mac * 8 + (msg_id % 8)

can_addr(msg_group, msg_id, mac) ==
    IF msg_group \notin 1..4 THEN GroupError
    ELSE IF msg_group = 1 /\ msg_id \notin 0..15 THEN GroupError
    ELSE IF msg_group = 2 /\ msg_id \notin 0..7 THEN GroupError
    ELSE IF msg_group = 3 /\ msg_id \notin 0..6 THEN GroupError
    ELSE IF msg_id \notin 0..63 THEN GroupError
    ELSE IF mac \notin 0..63 THEN GroupError
    ELSE IF msg_group = 1 THEN msg_id * 64 + mac
    ELSE IF msg_group = 2 THEN 1024 + mac * 8 + msg_id
    ELSE IF msg_group = 3 THEN 1536 + msg_id * 64 + mac
    ELSE 1984 + msg_id

----------------------------------------------------------------------------
\* devicenet/packets.py: building

\* a build_can_header that puts the destination MAC into every identifier
BuildCanHeaderDst(group_id, message_id, src_mac, dst_mac) ==
    IF group_id = 1 THEN message_id * 64 + dst_mac
    ELSE IF group_id = 2 THEN 1024 + dst_mac * 8 + message_id
    ELSE IF group_id = 3 THEN 1536 + message_id * 64 + dst_mac
    ELSE 0

\* DeviceNetPacket.build_can_header
build_can_header(group_id, message_id, src_mac, dst_mac) ==
    IF group_id = 1 THEN message_id * 64 + src_mac
    ELSE IF group_id = 2
         THEN 1024 + (IF message_id \in {0, 3} THEN src_mac ELSE dst_mac) * 8 + message_id
    ELSE IF group_id = 3 THEN 1536 + message_id * 64 + src_mac
    ELSE IF group_id = 4 THEN 1984 + message_id
    ELSE 0

\* DeviceNetPacket.build: set_group_id, set_message_id, set_src_mac, set_dst_mac
set_mac_can_header(group_id, message_id, src_mac, dst_mac) ==
    LET m1 == IF group_id \in {1, 3} THEN src_mac
              ELSE IF group_id = 2 /\ message_id \in {0, 3} THEN src_mac
              ELSE 0
        m2 == IF group_id = 2 /\ message_id \notin {0, 3} THEN dst_mac ELSE m1
    IN  can_addr(group_id, message_id, m2)

\* ExplicitPacket.generate_message_header: _mac_in_message keeps its initial 0
generate_message_header(frag_flag, xid) == frag_flag * 128 + xid * 64 + 0

\* FragHeaderMixin / set_frag_header of the explicit packets
set_frag_header(frag_type, frag_count) == frag_type * 64 + frag_count

\* A CAN frame: identifier and payload
Frame(can_id, data) == [can_id |-> can_id, data |-> data]

\* a generate_message_body that marks the request as a response
MessageBodyOfResponse(service_code, class_id, instance_id, service_data) ==
    <<128 + service_code, class_id, instance_id>> \o service_data

\* ExplicitServicePacket.generate_message_body: the body of a request
generate_message_body(service_code, class_id, instance_id, service_data) ==
    <<0 * 128 + service_code, class_id, instance_id>> \o service_data

\* ExplicitServicePacket(...).build(): CAN header, payload and body
ExplicitServiceBuild(group_id, message_id, src_mac, dst_mac, service_code, class_id, instance_id, service_data) ==
    LET body == generate_message_body(service_code, class_id, instance_id, service_data)
    IN  [can_header |-> build_can_header(group_id, message_id, src_mac, dst_mac),
         can_data   |-> <<generate_message_header(0, 0)>> \o body,
         data       |-> body]

\* a split() that drops the last, shorter block
FragTotalWhole(n, k) == n \div k

\* number of fragments split() makes of n bytes in blocks of k
FragTotal(n, k) == (n \div k) + (IF n % k # 0 THEN 1 ELSE 0)

\* type of fragment i of total
SplitType(i, total) ==
    IF i = 0 THEN TYPE_START ELSE IF i < total - 1 THEN TYPE_MIDDLE ELSE TYPE_FINAL

\* ExplicitServicePacket.split
ExplicitSplit(p) ==
    IF Len(p.can_data) > MAX_PACKET_SIZE
    THEN LET total == FragTotal(Len(p.data), EXPLICIT_DATA_LENGTH)
         IN  [k \in 1..total |->
                 Frame(p.can_header,
                       <<generate_message_header(1, 0),
                         set_frag_header(SplitType(k - 1, total), k - 1)>>
                       \o PySlice(p.data, (k - 1) * EXPLICIT_DATA_LENGTH,
                                  k * EXPLICIT_DATA_LENGTH))]
    ELSE <<Frame(p.can_header, p.can_data)>>

\* IoPacket(...).build()
IoBuild(group_id, message_id, src_mac, dst_mac, data) ==
    [can_header |-> build_can_header(group_id, message_id, src_mac, dst_mac),
     can_data   |-> data,
     data       |-> data,
     group_id   |-> group_id,
     message_id |-> message_id,
     src_mac    |-> src_mac,
     dst_mac    |-> dst_mac]

\* IoFragPacket.set_frag_type then set_frag_count: the count is masked
IoFragHeader(frag_type, frag_count) == frag_type * 64 + (frag_count % 64)

\* IoPacket.split
IoSplit(p) ==
    IF Len(p.can_data) > MAX_PACKET_SIZE
    THEN LET total == FragTotal(Len(p.data), IO_DATA_LENGTH)
         IN  [k \in 1..total |->
                 Frame(set_mac_can_header(p.group_id, p.message_id, p.src_mac, p.dst_mac),
                       <<IoFragHeader(SplitType(k - 1, total), k - 1)>>
                       \o PySlice(p.data, (k - 1) * IO_DATA_LENGTH, k * IO_DATA_LENGTH))]
    ELSE <<Frame(p.can_header, p.can_data)>>

\* ack_fragment: ExplicitFragAckPacket(src, dst, frag_count, frag_type=3, ack_status=0)
AckFrame(src_addr, dst_addr, frag_count) ==
    Frame(build_can_header(2, 4, src_addr, dst_addr),
          <<generate_message_header(1, 0), set_frag_header(TYPE_ACK, frag_count), 0>>)

----------------------------------------------------------------------------
\* devicenet/packets.py: parsing.  ok = FALSE stands for DevNetParsingError.

BadPacket ==
    [ok |-> FALSE, frag_flag |-> 0, frag_type |-> 0, frag_count |-> 0, rr_flag |-> 0,
     service_code |-> 0, service_data |-> <<>>, data |-> <<>>, ack_status |-> 0]

\* a parse_message_body that takes the service data of a response one byte late
ServiceBodyLate(body, p) ==
    IF Len(body) = 0 THEN BadPacket
    ELSE [p EXCEPT !.rr_flag = body[1] \div 128, !.service_code = body[1] % 128,
                   !.data = body, !.service_data = PySlice(body, 2, 8)]

\* ExplicitServicePacket.parse_message_body on frame.data[offset:8]
ServiceBody(body, p) ==
    IF Len(body) = 0 THEN BadPacket
    ELSE LET rr == body[1] \div 128
             sc == body[1] % 128
         IN  IF rr = 0
             THEN IF Len(body) < 3 THEN BadPacket
                  ELSE [p EXCEPT !.rr_flag = rr, !.service_code = sc, !.data = body,
                                 !.service_data = PySlice(body, 3, 8)]
             ELSE [p EXCEPT !.rr_flag = rr, !.service_code = sc, !.data = body,
                            !.service_data = PySlice(body, 1, 8)]

\* ExplicitServicePacket().from_frame
ParseExplicitService(d) ==
    IF Len(d) = 0 THEN BadPacket
    ELSE LET ff == (d[1] \div 128) % 2
             p0 == [BadPacket EXCEPT !.ok = TRUE, !.frag_flag = ff]
         IN  IF ff # 0
             THEN IF Len(d) < 2 THEN BadPacket
                  ELSE ServiceBody(PySlice(d, 2, 8),
                                   [p0 EXCEPT !.frag_type = d[2] \div 64,
                                              !.frag_count = d[2] % 64])
             ELSE ServiceBody(PySlice(d, 1, 8), p0)

\* ExplicitFragPacket().from_frame
ParseExplicitFrag(d) ==
    IF Len(d) < 2 THEN BadPacket
    ELSE [BadPacket EXCEPT !.ok = TRUE, !.frag_flag = (d[1] \div 128) % 2,
                           !.frag_type = d[2] \div 64, !.frag_count = d[2] % 64,
                           !.data = PySlice(d, 2, 8)]

\* a validate that accepts a fragment of any type
AckValidateAnyType(p) == p

\* ExplicitFragAckPacket.validate: _ack_status is the constructor's 0, never parsed
AckValidate(p) ==
    IF ~p.ok THEN p
    ELSE IF p.frag_type # TYPE_ACK THEN BadPacket
    ELSE IF p.ack_status = 1 THEN BadPacket
    ELSE IF p.ack_status \in 2..255 THEN BadPacket
    ELSE p

\* ExplicitFragAckPacket().from_frame
ParseExplicitFragAck(d) == AckValidate(ParseExplicitFrag(d))

\* IoFragPacket().from_frame
ParseIoFrag(d) ==
    IF Len(d) = 0 THEN BadPacket
    ELSE [BadPacket EXCEPT !.ok = TRUE, !.frag_type = d[1] \div 64,
                           !.frag_count = d[1] % 64, !.data = PySlice(d, 1, Len(d))]

----------------------------------------------------------------------------
\* devicenet/link.py: helpers

_fragmented(r) == r.frag_flag = FRAGMENT_ENABLED
_one_fragment(r) == r.frag_type = TYPE_START /\ r.frag_count = FRAGMENT_MAX_COUNT
_start_fragment(r) == r.frag_type = TYPE_START /\ r.frag_count = 0
_final_fragment(r) == r.frag_type = TYPE_FINAL \/ r.frag_count = FRAGMENT_MAX_COUNT
\* a _bad_service that accepts every service code
BadServiceNever(service_code) == FALSE

_bad_service(service_code) == service_code > SERVICE_LAST_VALID_CODE
_error(r) == r.service_code = SERVICE_ERROR

\* errors.py, CipServiceError(code): the message is looked up in ERROR.TAG
ServiceErrorRaised(code) == IF code \in 0..MAX_ERROR_TAG THEN "CipServiceError" ELSE "KeyError"

----------------------------------------------------------------------------
\* The calls and the frames of the model

Ramp(n) == [i \in 1..n |-> i % 256]

NoCall ==
    [fn |-> "none", src_addr |-> 0, dst_addr |-> 0, service_code |-> 0, class_id |-> 0,
     instance_id |-> 0, data |-> <<>>, group_id |-> 0, message_id |-> 0, wait_time |-> 0,
     event_handler |-> FALSE, consumed_size |-> 0, produced_size |-> 0, ack_sup |-> FALSE]

\* service code and service data of the requests: GET and RESET in one frame,
\* SET_ATTR_SINGLE with 5 and 12 bytes (2 and 3 fragments), a code above 0x7F
RequestArgs ==
    { <<SERVICE_GET_ATTR_SINGLE, <<1>> >>, <<SERVICE_RESET, <<>> >>,
      <<SERVICE_SET_ATTR_SINGLE, Ramp(5)>>, <<SERVICE_SET_ATTR_SINGLE, Ramp(12)>>,
      <<128 + SERVICE_GET_ATTR_SINGLE, <<1>> >> }

\* wait_time of the calls: the 3-fragment request is sent without a wait
WaitTimes(data) == IF Len(data) > 5 THEN {0} ELSE {0, 1}

\* MAC addresses of the master and the slave in the calls that vary them
Macs == {0, 1, 5, 63}

\* service_request(GET_ATTR_SINGLE) and allocate (link.py: a service_request on
\* message ID 6 to the DeviceNet object) without a wait, between every pair of addresses
AddressedCalls ==
    { [NoCall EXCEPT !.fn = "service_request", !.src_addr = s, !.dst_addr = d,
                     !.service_code = SERVICE_GET_ATTR_SINGLE,
                     !.class_id = IDENTITY_ID, !.instance_id = IDENTITY_DEFAULT_INSTANCE,
                     !.data = <<1>>, !.group_id = 2, !.message_id = 4]
      : s \in Macs, d \in Macs }
    \cup
    { [NoCall EXCEPT !.fn = "service_request", !.src_addr = s, !.dst_addr = d,
                     !.service_code = SERVICE_ALLOCATE,
                     !.class_id = DEVICENET_ID, !.instance_id = DEVICENET_DEFAULT_INSTANCE,
                     !.data = <<ALLOC_EXPLICIT, s>>, !.group_id = 2, !.message_id = 6]
      : s \in Macs, d \in Macs }
    \cup
    \* the request of ModuleNetworkStatus (class 0x404), on instances 1 and 0x101
    { [NoCall EXCEPT !.fn = "service_request", !.src_addr = MASTER_ADDR,
                     !.dst_addr = SLAVE_ADDR, !.service_code = SERVICE_GET_ATTR_SINGLE,
                     !.class_id = MNS_ID, !.instance_id = i,
                     !.data = <<1>>, !.group_id = 2, !.message_id = 4]
      : i \in {1, 257} }

ServiceCalls ==
    LET all ==
    { [NoCall EXCEPT !.fn = "service_request", !.src_addr = MASTER_ADDR,
                     !.dst_addr = SLAVE_ADDR, !.service_code = a[1],
                     !.class_id = IDENTITY_ID, !.instance_id = IDENTITY_DEFAULT_INSTANCE,
                     !.data = a[2], !.group_id = 2, !.message_id = 4,
                     !.wait_time = w, !.event_handler = h]
      : a \in RequestArgs, w \in {0, 1}, h \in BOOLEAN }
    IN  { c \in all : c.wait_time \in WaitTimes(c.data) } \cup AddressedCalls

IoSizes == {8, 9}

\* lengths of the data of the I/O calls; the long message goes to one kind of slave
IoLens == {1, 7, 8, 9, 15, LongIo}

IoCalls(fn) ==
    LET all ==
    { [NoCall EXCEPT !.fn = fn, !.src_addr = MASTER_ADDR, !.dst_addr = SLAVE_ADDR,
                     !.data = Ramp(n), !.wait_time = 1, !.consumed_size = cs,
                     !.produced_size = ps, !.ack_sup = s]
      : n \in IoLens, cs \in IoSizes, ps \in IoSizes, s \in BOOLEAN }
    IN  { c \in all : Len(c.data) > 9 => (c.consumed_size = 9 /\ c.produced_size = 8 /\ c.ack_sup) }

\* parameters of poll_write and bitstrobe_write: data and, for poll_write, consumed_size
PollWriteCalls(fn) ==
    { c \in IoCalls(fn) : c.produced_size = 8 /\ ~c.ack_sup /\ Len(c.data) < LongIo
                          /\ (fn = "bitstrobe_write" => c.consumed_size = 8) }

\* parameters of poll_read and bitstrobe_read: produced_size of poll_read
PollReadCalls(fn) ==
    { c \in IoCalls(fn) : c.consumed_size = 8 /\ ~c.ack_sup /\ Len(c.data) = 1
                          /\ (fn = "bitstrobe_read" => c.produced_size = 8) }

\* payloads the slave may put on the response identifier of an explicit exchange
ErrBytes == {0, 22, 46, 47, 255}
RspFrames ==
    { <<0, 128 + sc>> \o d : sc \in {SERVICE_RESET, SERVICE_GET_ATTR_SINGLE,
                                     SERVICE_SET_ATTR_SINGLE}, d \in {<<>>, <<52, 18>>} }
    \cup { <<0, 203, 1>>, <<0, SERVICE_GET_ATTR_SINGLE, 1, 1, 1>> }
ErrFrames == { <<0, 128 + SERVICE_ERROR, e>> : e \in ErrBytes } \cup { <<0, 128 + SERVICE_ERROR>> }
StartFrames ==
    { <<128, set_frag_header(TYPE_START, c), 128 + SERVICE_GET_ATTR_SINGLE>> \o d
      : c \in {0, FRAGMENT_MAX_COUNT}, d \in {<<>>, <<52>>} }
FragFrames ==
    { <<128, set_frag_header(t, c)>> \o d
      : t \in {TYPE_MIDDLE, TYPE_FINAL}, c \in 1..MaxFrag, d \in {<<>>, <<18>>, <<86>>} }
AckFrames == { <<128, set_frag_header(TYPE_ACK, c), s>> : c \in {0, 1}, s \in {0, 1, 2} }
ShortFrames == { <<>>, <<128>> }
RxExplicit ==
    RspFrames \cup ErrFrames \cup StartFrames \cup FragFrames \cup AckFrames \cup ShortFrames

\* payloads the slave may put on the identifier of an I/O exchange
RxIo ==
    { <<>> } \cup
    { <<IoFragHeader(t, c)>> \o d
      : t \in {TYPE_START, TYPE_MIDDLE, TYPE_FINAL}, c \in {0, 1, FRAGMENT_MAX_COUNT},
        d \in {<<>>, <<52>>} }

\* interface.recv: None on timeout, else a frame
Recv(frames) == { None } \cup { Some(f) : f \in frames }

\* a slave that sends any frame or none at every receive
FreeBus == [scripted |-> FALSE, payload |-> <<>>, frames |-> <<>>]

\* payloads of the frames of a message
Payloads(fs) == [k \in 1..Len(fs) |-> fs[k].data]

\* the message a slave answers a request with: service data d on the response identifier
ResponseFrames(c, d) ==
    ExplicitSplit(ExplicitServiceBuild(2, 3, c.dst_addr, c.src_addr, c.service_code, c.class_id, c.instance_id, d))

\* a slave that answers the request with service data d, fragmented by split(), and then is silent
EchoBus(c, d) ==
    [scripted |-> TRUE, payload |-> d, frames |-> Payloads(ResponseFrames(c, d))]

\* a slave that acknowledges each of n fragments, and then is silent
AckBus(n) ==
    [scripted |-> TRUE, payload |-> <<>>,
     frames |-> [k \in 1..n |-> <<128, set_frag_header(TYPE_ACK, 0), 0>>]]

\* lengths of the service data the scripted slave answers with
EchoLens == (5..MaxLen) \cup {LongData - EXPLICIT_DATA_LENGTH, LongData}

\* service_request(SET_ATTR_SINGLE) with service data of 65 fragments, without a wait
LongCall ==
    [NoCall EXCEPT !.fn = "service_request", !.src_addr = MASTER_ADDR,
                   !.dst_addr = SLAVE_ADDR, !.service_code = SERVICE_SET_ATTR_SINGLE,
                   !.class_id = IDENTITY_ID, !.instance_id = IDENTITY_DEFAULT_INSTANCE,
                   !.data = Ramp(LongData),
                   !.group_id = 2, !.message_id = 4]

\* the slaves a request may meet
Slaves(c) ==
    IF c = LongCall THEN { AckBus(FragTotal(Len(c.data) + 3, EXPLICIT_DATA_LENGTH)) }
    ELSE IF c.service_code = SERVICE_GET_ATTR_SINGLE /\ c.wait_time # 0 /\ ~c.event_handler
    THEN { FreeBus } \cup { EchoBus(c, Ramp(n)) : n \in EchoLens }
    ELSE { FreeBus }

\* interface.recv against the slave of the call
Receives(frames) ==
    IF bus.scripted
    THEN IF bus.frames # <<>> THEN { Some(Head(bus.frames)) } ELSE { None }
    ELSE Recv(frames)

\* the slave after one interface.recv
BusAfterRecv == IF bus.frames # <<>> THEN [bus EXCEPT !.frames = Tail(@)] ELSE bus

Ev(kind, can_id, data) == [ev |-> kind, can_id |-> can_id, data |-> data]
Rx(m) == IF m.some THEN Ev("rx", 0, m.data) ELSE Ev("timeout", 0, <<>>)
Tx(f) == Ev("tx", f.can_id, f.data)

Explicit == call.fn = "service_request"

\* the frames of an I/O message: poll_write, cos_write and the ack of cos_read
IoFrames(p, consumed_size) ==
    IF consumed_size > 8 /\ Len(p.data) >= 8 THEN IoSplit(p)
    ELSE IF consumed_size > 8 /\ Len(p.data) < 8
         THEN <<Frame(p.can_header, <<FRAGMENT_MAX_COUNT>> \o p.data)>>
    ELSE <<Frame(p.can_header, p.can_data)>>

\* read_fragment: result = stream if stream else None
ReadFragmentResult == IF stream # <<>> THEN Some(stream) ELSE None

----------------------------------------------------------------------------
\* devicenet/packets.py: the packet variants, built to a frame and parsed back

\* network/addressing.py, devnet_addr: group, message ID and MAC of a CAN identifier
\* a devnet_addr that takes every identifier for one of group 1
DevnetAddrGroup1(can_id) == <<1, (can_id \div 64) % 16, can_id % 64>>

devnet_addr(can_id) ==
    IF can_id \in 0..1023 THEN <<1, (can_id \div 64) % 16, can_id % 64>>
    ELSE IF can_id \in 1024..1535 THEN <<2, can_id % 8, (can_id \div 8) % 64>>
    ELSE IF can_id \in 1536..1983 THEN <<3, (can_id \div 64) % 8, can_id % 64>>
    ELSE IF can_id \in 1984..2031 THEN <<4, can_id % 64, 0>>
    ELSE <<0, 0, 0>>

\* convert.py: little-endian bytes of an integer, and back
RECURSIVE integer_to_bytes(_, _)
integer_to_bytes(value, size) ==
    IF size = 0 THEN <<>> ELSE <<value % 256>> \o integer_to_bytes(value \div 256, size - 1)

RECURSIVE bytes_to_integer(_)
bytes_to_integer(bs) ==
    IF bs = <<>> THEN 0 ELSE Head(bs) + 256 * bytes_to_integer(Tail(bs))

\* the fields of a packet; ok = FALSE stands for DevNetParsingError
NoPacket ==
    [variant |-> "none", ok |-> TRUE, group_id |-> 0, message_id |-> 0, src_mac |-> 0,
     dst_mac |-> 0, data |-> <<>>, frag_flag |-> 0, xid |-> 0, frag_type |-> 0,
     frag_count |-> 0, rr_flag |-> 0, service_code |-> 0, class_id |-> 0,
     instance_id |-> 0, service_data |-> <<>>, ack_status |-> 0, physical_port |-> 0,
     vendor_id |-> 0, serial_number |-> 0]

IsService(variant) == variant \in {"ExplicitServiceRequest", "ExplicitServiceResponse"}

\* the constructors without arguments, as the parsing side calls them
NewPacket(variant) ==
    LET p == [NoPacket EXCEPT !.variant = variant]
    IN  IF variant = "Explicit" \/ IsService(variant)
        THEN [p EXCEPT !.group_id = 2, !.message_id = 4]
        ELSE IF variant = "ExplicitFrag"
        THEN [p EXCEPT !.group_id = 2, !.message_id = 4, !.frag_flag = 1,
                       !.frag_type = TYPE_MIDDLE]
        ELSE IF variant = "ExplicitFragAck"
        THEN [p EXCEPT !.group_id = 2, !.message_id = 4, !.frag_flag = 1,
                       !.frag_type = TYPE_ACK, !.data = <<0>>]
        ELSE IF variant = "DupMac"
        THEN [p EXCEPT !.group_id = 2, !.message_id = 7, !.data = <<0, 0, 0, 0, 0, 0, 0>>]
        ELSE p

\* ExplicitServicePacket.generate_service_header
generate_service_header(rr_flag, service_code) == rr_flag * 128 + service_code

\* a DupMacPacket.build that writes the vendor ID and the serial number high byte first
DupMacDataBigEndian(v) ==
    <<(IF v.rr_flag > 0 THEN 128 ELSE 0) + (v.physical_port % 128)>>
    \o <<(v.vendor_id \div 256) % 256, v.vendor_id % 256>>
    \o <<(v.serial_number \div 16777216) % 256, (v.serial_number \div 65536) % 256,
         (v.serial_number \div 256) % 256, v.serial_number % 256>>

\* DupMacPacket.build: set_rr_flag, set_physical_port, set_vendor_id, set_serial_number
DupMacData(v) ==
    <<(IF v.rr_flag > 0 THEN 128 ELSE 0) + (v.physical_port % 128)>>
    \o integer_to_bytes(v.vendor_id, 2) \o integer_to_bytes(v.serial_number, 4)

\* build() of packet v: the packet after it, and can_header and can_data as to_frame() sends them
BuildPacket(v) ==
    LET header == build_can_header(v.group_id, v.message_id, v.src_mac, v.dst_mac)
        body == <<generate_service_header(v.rr_flag, v.service_code), v.class_id, v.instance_id>>
                \o v.service_data
    IN  IF v.variant = "Explicit"
        THEN [packet |-> v,
              frame |-> Frame(header, <<generate_message_header(v.frag_flag, v.xid)>> \o v.data)]
        ELSE IF IsService(v.variant)
        THEN [packet |-> [v EXCEPT !.data = body],
              frame |-> Frame(header, <<generate_message_header(v.frag_flag, v.xid)>> \o body)]
        ELSE IF v.variant \in {"ExplicitFrag", "ExplicitFragAck"}
        THEN [packet |-> v,
              frame |-> Frame(header, <<generate_message_header(v.frag_flag, v.xid),
                                        set_frag_header(v.frag_type, v.frag_count)>> \o v.data)]
        ELSE IF v.variant = "Io"
        THEN [packet |-> v, frame |-> Frame(header, v.data)]
        ELSE IF v.variant = "IoFrag"
        THEN [packet |-> v,
              frame |-> Frame(set_mac_can_header(v.group_id, v.message_id, v.src_mac, v.dst_mac),
                              <<IoFragHeader(v.frag_type, v.frag_count)>> \o v.data)]
        ELSE [packet |-> [v EXCEPT !.data = DupMacData(v)],
              frame |-> Frame(can_addr(2, 7, v.dst_mac), DupMacData(v))]

\* DeviceNetPacket.get_src_mac then get_dst_mac on packet p; in group 2 with message
\* ID 0 or 3, get_dst_mac assigns src_mac
GetMacs(p, mac_in_can_id, mac_in_message) ==
    IF p.group_id \in {1, 3}
    THEN [p EXCEPT !.src_mac = mac_in_can_id, !.dst_mac = mac_in_message]
    ELSE IF p.group_id = 2
    THEN IF p.message_id \in {0, 3}
         THEN [p EXCEPT !.src_mac = mac_in_message]
         ELSE [p EXCEPT !.src_mac = mac_in_message, !.dst_mac = mac_in_can_id]
    ELSE [p EXCEPT !.ok = FALSE]

\* ExplicitServicePacket.parse_message_body of a parsed packet p
ServiceFields(p, body, mac_in_can_id, mac_in_message) ==
    IF Len(body) = 0 THEN [p EXCEPT !.ok = FALSE]
    ELSE LET q == [p EXCEPT !.data = body, !.rr_flag = body[1] \div 128,
                            !.service_code = body[1] % 128]
         IN  IF q.rr_flag = 0
             THEN IF Len(body) < 3 THEN [p EXCEPT !.ok = FALSE]
                  ELSE [q EXCEPT !.src_mac = mac_in_message, !.dst_mac = mac_in_can_id,
                                 !.class_id = body[2], !.instance_id = body[3],
                                 !.service_data = PySlice(body, 3, 8)]
             ELSE [q EXCEPT !.src_mac = mac_in_can_id, !.dst_mac = mac_in_message,
                            !.service_data = PySlice(body, 1, 8)]

\* <variant>().from_frame(f): the fields of the parsed packet
ParsePacket(variant, f) ==
    LET a == devnet_addr(f.can_id)
        d == f.data
        p == [NewPacket(variant) EXCEPT !.group_id = a[1], !.message_id = a[2]]
        hdr(q) == [q EXCEPT !.frag_flag = (d[1] \div 128) % 2, !.xid = (d[1] \div 64) % 2]
        frag(q, i) == [q EXCEPT !.frag_type = d[i] \div 64, !.frag_count = d[i] % 64]
    IN  IF variant = "Explicit"
        THEN IF Len(d) < 1 THEN [p EXCEPT !.ok = FALSE]
             ELSE [hdr(GetMacs(p, a[3], 0)) EXCEPT !.data = PySlice(d, 1, 8)]
        ELSE IF IsService(variant)
        THEN IF Len(d) < 1 THEN [p EXCEPT !.ok = FALSE]
             ELSE LET q == hdr(GetMacs(p, a[3], 0))
                  IN  IF q.frag_flag # 0
                      THEN IF Len(d) < 2 THEN [p EXCEPT !.ok = FALSE]
                           ELSE ServiceFields(frag(q, 2), PySlice(d, 2, 8), a[3], d[1] % 64)
                      ELSE ServiceFields(q, PySlice(d, 1, 8), a[3], d[1] % 64)
        ELSE IF variant \in {"ExplicitFrag", "ExplicitFragAck"}
        THEN IF Len(d) < 2 THEN [p EXCEPT !.ok = FALSE]
             ELSE LET q == [frag(hdr(p), 2) EXCEPT !.data = PySlice(d, 2, 8)]
                  IN  IF variant = "ExplicitFragAck" /\ ~AckValidate(q).ok
                      THEN [p EXCEPT !.ok = FALSE] ELSE q
        ELSE IF variant = "Io"
        THEN [p EXCEPT !.data = d]
        ELSE IF variant = "IoFrag"
        THEN IF Len(d) < 1 THEN [p EXCEPT !.ok = FALSE]
             ELSE [frag(GetMacs(p, a[3], 0), 1) EXCEPT !.data = PySlice(d, 1, Len(d))]
        ELSE IF Len(d) < 1 THEN [p EXCEPT !.ok = FALSE]
             ELSE [p EXCEPT !.dst_mac = a[3], !.rr_flag = (d[1] \div 128) % 2,
                            !.physical_port = d[1] % 128,
                            !.vendor_id = bytes_to_integer(PySlice(d, 1, 3)),
                            !.serial_number = bytes_to_integer(PySlice(d, 3, 7))]

\* group and message ID of the identifiers: all of group 2, and some of groups 1 and 3
Routes == { <<2, m>> : m \in 0..7 } \cup { <<1, 0>>, <<1, 13>>, <<1, 15>>, <<3, 0>>, <<3, 6>> }

\* the packets that are built and parsed back: every variant, its own fields and the MACs varied
Packets ==
    LET base(variant, g, m) ==
            { [NoPacket EXCEPT !.variant = variant, !.group_id = g, !.message_id = m,
                               !.src_mac = s, !.dst_mac = t]
              : s \in Macs, t \in Macs }
        Datas == { <<>>, <<52, 18>> }
    IN  { [b EXCEPT !.data = x] : b \in base("Explicit", 2, 4) \cup base("Explicit", 2, 3), x \in Datas }
        \cup { [b EXCEPT !.service_code = SERVICE_GET_ATTR_SINGLE, !.class_id = c,
                         !.instance_id = c, !.service_data = x]
               : b \in base("ExplicitServiceRequest", 2, 4), c \in {0, 1}, x \in Datas }
        \cup { [b EXCEPT !.rr_flag = 1, !.service_code = SERVICE_GET_ATTR_SINGLE,
                         !.service_data = x]
               : b \in base("ExplicitServiceResponse", 2, 3), x \in Datas }
        \cup { [b EXCEPT !.frag_flag = 1, !.frag_type = t, !.frag_count = c, !.data = x]
               : b \in base("ExplicitFrag", 2, 4), t \in {TYPE_START, TYPE_FINAL},
                 c \in {0, FRAGMENT_MAX_COUNT}, x \in Datas }
        \cup { [b EXCEPT !.frag_flag = 1, !.frag_type = TYPE_ACK, !.frag_count = c,
                         !.ack_status = e, !.data = <<e>>]
               : b \in base("ExplicitFragAck", 2, 4), c \in {0, 1}, e \in {0, 1} }
        \cup { [b EXCEPT !.data = x] : b \in base("Io", 2, 5) \cup base("Io", 1, 15), x \in Datas }
        \cup { [b EXCEPT !.frag_type = t, !.frag_count = c, !.data = x]
               : b \in base("IoFrag", 2, 5), t \in {TYPE_START, TYPE_FINAL},
                 c \in {0, FRAGMENT_MAX_COUNT}, x \in Datas }
        \cup { [NoPacket EXCEPT !.variant = "DupMac", !.group_id = 2, !.message_id = 7,
                                !.dst_mac = t, !.rr_flag = r, !.physical_port = pp,
                                !.vendor_id = vi, !.serial_number = sn,
                                !.data = <<0, 0, 0, 0, 0, 0, 0>>]
               : t \in Macs, r \in {0, 1}, pp \in {0, 1, 127}, vi \in {0, 4660, 65535},
                 sn \in {0, 305419896, 2147483647} }
        \cup UNION { base(variant, gm[1], gm[2]) : variant \in {"Io", "IoFrag"}, gm \in Routes }

\* no packet was built
NoCodec == [packet |-> NoPacket, frame |-> Frame(0, <<>>), parsed |-> NoPacket]

----------------------------------------------------------------------------
\* network/addressing.py and convert.py: the conversions, applied to their inputs

\* no conversion was applied
NoConv == [fn |-> "none", input |-> <<>>, output |-> <<>>, back |-> <<>>]

\* arguments of can_addr: every group and message ID in and next to the valid
\* ranges, MAC addresses at and next to the ends of 0..63
AddrTriples == { <<g, m, a>> : g \in 0..5, m \in 0..64, a \in {0, 1, 31, 63, 64} }

\* bytearray(value, encoding='utf-8') of one code point below 0x800
Utf8(cp) == IF cp < 128 THEN <<cp>> ELSE <<192 + (cp \div 64), 128 + (cp % 64)>>

\* bytearray(value, encoding='utf-8'), taken half by half
RECURSIVE Utf8Encode(_)
Utf8Encode(str) ==
    IF str = <<>> THEN <<>>
    ELSE IF Len(str) = 1 THEN Utf8(str[1])
    ELSE Utf8Encode(SubSeq(str, 1, Len(str) \div 2))
         \o Utf8Encode(SubSeq(str, (Len(str) \div 2) + 1, Len(str)))

\* bytearray(stream).decode('utf-8'): the code points, or <<-1>> for ValueError
\* (an element above 255) and UnicodeDecodeError; taken half by half, a
\* continuation byte staying with the byte before it
RECURSIVE Utf8Decode(_)
Utf8Decode(bs) ==
    IF bs = <<>> THEN <<>>
    ELSE IF Len(bs) = 1 THEN (IF bs[1] \in 0..127 THEN bs ELSE <<-1>>)
    ELSE IF Len(bs) = 2
    THEN IF bs[1] \in 0..127 /\ bs[2] \in 0..127 THEN bs
         ELSE IF bs[1] \in 194..223 /\ bs[2] \in 128..191
         THEN <<(bs[1] - 192) * 64 + (bs[2] - 128)>>
         ELSE <<-1>>
    ELSE LET m == Len(bs) \div 2
             cut == IF bs[m + 1] \in 128..191 THEN m + 1 ELSE m
             l == Utf8Decode(SubSeq(bs, 1, cut))
             r == Utf8Decode(SubSeq(bs, cut + 1, Len(bs)))
         IN  IF l = <<-1>> \/ r = <<-1>> THEN <<-1>> ELSE l \o r

\* str.rstrip("\u0000")
RECURSIVE RStripNul(_)
RStripNul(str) ==
    IF str # <<>> /\ str[Len(str)] = 0 THEN RStripNul(SubSeq(str, 1, Len(str) - 1)) ELSE str

\* convert.py, string_to_bytes: the length, then the bytes, cut to 255 elements
string_to_bytes(value) ==
    LET st == <<Len(Utf8Encode(value))>> \o Utf8Encode(value)
    IN  IF Len(st) > 255 THEN SubSeq(st, 1, 255) ELSE st

\* convert.py, bytes_to_string
bytes_to_string(st) ==
    LET d == Utf8Decode(PySlice(Tail(st), 0, st[1]))
    IN  IF d = <<-1>> THEN d ELSE RStripNul(d)

\* the strings that are converted, as code points: every string of up to 3
\* characters of NUL, 'A' and U+00E9, and runs of 'A' around 255 bytes, plain and
\* followed by U+00E9
Strings ==
    UNION { [1..n -> {0, 65, 233}] : n \in 0..3 }
    \cup { [i \in 1..n |-> 65] : n \in (MaxString - 4)..MaxString }
    \cup { [i \in 1..n |-> 65] \o <<233>> : n \in (MaxString - 4)..MaxString }

----------------------------------------------------------------------------
\* devicenet/node.py, devicenet/cip/connection.py, devicenet/cip/devnet.py:
\* allocate and release of a node and of its connection objects

\* the slave addresses of the nodes of the master
NodeAddrs == {SLAVE_ADDR, SLAVE_ADDR + 1}

\* alloc_choice of DevNetCipNode.allocate and release: EXPLICIT|POLL and COS|ACKSUP
NodeChoices == {ALLOC_EXPLICIT + ALLOC_POLL, ALLOC_COS + ALLOC_ACKSUP}

\* the connection objects of a node that are allocated and released directly,
\* named by their alloc_choice: node.explicit, node.poll and node.cos
ConnObjects == {ALLOC_EXPLICIT, ALLOC_POLL, ALLOC_COS}

\* node.py, __init__: the instance of the connection object of an alloc_choice
InstanceOf(alloc_choice) ==
    IF alloc_choice = ALLOC_EXPLICIT THEN 1
    ELSE IF alloc_choice = ALLOC_POLL THEN 2
    ELSE IF alloc_choice = ALLOC_BITSTROBE THEN 3
    ELSE IF alloc_choice \in {ALLOC_COS, ALLOC_CYCLIC} THEN 4
    ELSE 5

\* alloc_choice & bit
HasBit(alloc_choice, bit) == (alloc_choice \div bit) % 2 = 1

\* an entry of CipObject.connections: None, or the connection object of a node
NoConn == [node |-> -1, alloc_choice |-> 0]
Conn(n, alloc_choice) == [node |-> n, alloc_choice |-> alloc_choice]

\* CipObject.connections of the class definition
NoConnections == [i \in 1..5 |-> NoConn]

\* the table that CipObject.connections is for the objects of node n: the class
\* attribute itself, whatever n is
TableOf(n) == connections

\* the choices for which ConnectionObject registers and clears the poll entry too
WithPoll(alloc_choice) ==
    alloc_choice \in {ALLOC_COS, ALLOC_COS + ALLOC_ACKSUP, ALLOC_CYCLIC, ALLOC_CYCLIC + ALLOC_ACKSUP}

\* DevNetCipNode.allocate: the entries it sets from the bits of alloc_choice
NodeRegister(t, n, alloc_choice) ==
    LET t1 == IF HasBit(alloc_choice, ALLOC_EXPLICIT)
              THEN [t EXCEPT ![1] = Conn(n, ALLOC_EXPLICIT)] ELSE t
        t2 == IF HasBit(alloc_choice, ALLOC_POLL)
              THEN [t1 EXCEPT ![2] = Conn(n, ALLOC_POLL)] ELSE t1
        t3 == IF HasBit(alloc_choice, ALLOC_BITSTROBE)
              THEN [t2 EXCEPT ![3] = Conn(n, ALLOC_BITSTROBE)] ELSE t2
        t4 == IF HasBit(alloc_choice, ALLOC_MPOLL)
              THEN [t3 EXCEPT ![5] = Conn(n, ALLOC_MPOLL)] ELSE t3
        t5 == IF HasBit(alloc_choice, ALLOC_COS)
              THEN [t4 EXCEPT ![4] = Conn(n, ALLOC_COS), ![2] = Conn(n, ALLOC_POLL)] ELSE t4
    IN  IF HasBit(alloc_choice, ALLOC_CYCLIC)
        THEN [t5 EXCEPT ![4] = Conn(n, ALLOC_CYCLIC), ![2] = Conn(n, ALLOC_POLL)] ELSE t5

\* a ConnectionObject.allocate that registers its own instance only
ConnRegisterSelf(t, n, alloc_choice, sent_choice) ==
    [t EXCEPT ![InstanceOf(alloc_choice)] = Conn(n, alloc_choice)]

\* ConnectionObject.allocate, finally: the object under its instance, and a new
\* poll connection under instance 2 if COS or CYCLIC was sent
ConnRegister(t, n, alloc_choice, sent_choice) ==
    LET t1 == [t EXCEPT ![InstanceOf(alloc_choice)] = Conn(n, alloc_choice)]
    IN  IF WithPoll(sent_choice) THEN [t1 EXCEPT ![2] = Conn(n, ALLOC_POLL)] ELSE t1

\* ConnectionObject.release, finally: the entry of the instance, and entry 2 for
\* COS and CYCLIC
ConnClear(t, alloc_choice) ==
    LET t1 == [t EXCEPT ![InstanceOf(alloc_choice)] = NoConn]
    IN  IF WithPoll(alloc_choice) THEN [t1 EXCEPT ![2] = NoConn] ELSE t1

\* link.allocate and link.release: service_request on message ID 6 to the DeviceNet object
ObjectCall(service_code, dst_addr, data) ==
    [NoCall EXCEPT !.fn = "service_request", !.src_addr = MASTER_ADDR, !.dst_addr = dst_addr,
                   !.service_code = service_code, !.class_id = DEVICENET_ID,
                   !.instance_id = DEVICENET_DEFAULT_INSTANCE, !.data = data,
                   !.group_id = 2, !.message_id = 6, !.wait_time = 1]

\* the slave of an allocate or release: it answers with success, with an ERROR
\* response, or not at all
NodeSlaves(c) ==
    { [scripted |-> TRUE, payload |-> <<>>, frames |-> fs]
      : fs \in { <<>>, << <<0, 128 + c.service_code, 1>> >>,
                 << <<0, 128 + SERVICE_ERROR, 22, 255>> >> } }

\* the operation of a node or of a connection object that is running
NoOp == [kind |-> "none", node |-> 0, alloc_choice |-> 0, sent_choice |-> 0]
Op(kind, n, alloc_choice, sent_choice) ==
    [kind |-> kind, node |-> n, alloc_choice |-> alloc_choice, sent_choice |-> sent_choice]

\* an operation that has returned to its caller: what was called on which object,
\* and whether its last exchange with the slave succeeded
Closed(o, ok) == [kind |-> o.kind, node |-> o.node, alloc_choice |-> o.alloc_choice, ok |-> ok]

\* what allocate or release of a connection object or of the DeviceNet object
\* gave its caller: a value, or an exception
NoRet == [fn |-> "none", exc |-> "none", result |-> None]

\* try / except CipServiceError / finally: return result - 0 for a result, the
\* code of a CipServiceError, and None in place of any other exception
ObjectResult(fn) ==
    [fn |-> fn, exc |-> "none",
     result |-> IF outcome = "return" THEN (IF retval.some THEN Some(<<0>>) ELSE None)
                ELSE IF outcome = "CipServiceError" THEN Some(<<errcode>>)
                ELSE None]

\* the xid bit of the message header of a frame
XidOf(f) == (f.data[1] \div 64) % 2

\* the xid of the last request of each master to each slave
PutXid(xs, src, dst, xid) == { x \in xs : x[1] # src \/ x[2] # dst } \cup { <<src, dst, xid>> }

----------------------------------------------------------------------------
Init ==
    /\ pc = "idle"
    /\ call = NoCall
    /\ listening = {}
    /\ trace = <<>>
    /\ frags = <<>>
    /\ fi = 1
    /\ ack_i = 0
    /\ msg_in = None
    /\ result = None
    /\ stream = <<>>
    /\ prev_counter = 0
    /\ rf_n = 0
    /\ dropped = FALSE
    /\ bus = FreeBus
    /\ codec = NoCodec
    /\ outcome = "running"
    /\ retval = None
    /\ errcode = -1
    /\ connections = NoConnections
    /\ op = NoOp
    /\ ops = 0
    /\ ret = NoRet
    /\ xids = {}
    /\ conv = NoConv
    /\ hist = <<>>

\* the call ends: it returns v, or raises exception o with code
Finish(o, v, code) ==
    /\ pc' = "done"
    /\ outcome' = o
    /\ retval' = v
    /\ errcode' = code

Running == UNCHANGED <<outcome, retval, errcode>>

\* service_request, up to send_message
ServiceRequest ==
    /\ pc = "idle"
    /\ \E c \in ServiceCalls \cup {LongCall} :
         LET request == ExplicitServiceBuild(c.group_id, c.message_id, c.src_addr, c.dst_addr, c.service_code, c.class_id, c.instance_id, c.data)
             can_id == can_addr(2, 3, c.dst_addr)
         IN  /\ call' = c
             /\ listening' = listening \cup {can_id}
             /\ trace' = Append(trace, Ev("listen", can_id, <<>>))
             /\ frags' = ExplicitSplit(request)
             /\ xids' = PutXid(xids, c.src_addr, c.dst_addr, XidOf(ExplicitSplit(request)[1]))
             /\ fi' = 1
             /\ pc' = "sm_send"
             /\ bus' \in Slaves(c)
    /\ Running
    /\ UNCHANGED <<ack_i, msg_in, result, stream, prev_counter, rf_n, dropped, codec, conv, connections, op, ops, ret, hist>>

\* a send_message that stops after its first frame
AfterFrameStop == "sm_done"

\* a send_message that sends its frame again
AfterFrameAgain == "sm_send"

\* where send_message goes after the frame frags[fi] is on the bus
AfterFrame == IF fi < Len(frags) THEN "sm_send" ELSE "sm_done"

\* a send_message that never waits for an ack
AwaitsAckNever == FALSE

\* does send_message wait for an ack of the frame it sent
AwaitsAck == Len(frags) > 1 /\ Explicit

\* send_message: interface.send of the next frame
SendMessage ==
    /\ pc = "sm_send"
    /\ trace' = Append(trace, Tx(frags[fi]))
    /\ IF AwaitsAck
       THEN pc' = "wfa_recv" /\ fi' = fi
       ELSE pc' = AfterFrame /\ fi' = (IF fi < Len(frags) THEN fi + 1 ELSE fi)
    /\ ack_i' = 0
    /\ Running
    /\ UNCHANGED <<call, listening, frags, msg_in, result, stream, prev_counter, rf_n, dropped, bus, codec, conv, connections, op, ops, ret, xids, hist>>

\* wait_fragment_ack: one pass of its loop
WaitFragmentAck ==
    /\ pc = "wfa_recv"
    /\ \E m \in Receives(RxExplicit) :
         /\ msg_in' = m
         /\ trace' = Append(trace, Rx(m))
         /\ IF m.some
            THEN LET r == ParseExplicitFragAck(m.data)
                 IN  IF ~r.ok
                     THEN Finish("DevNetParsingError", None, -1) /\ UNCHANGED <<fi, ack_i>>
                     ELSE IF r.ack_status # 0
                     THEN Finish("CipFragmentResponseError", None, -1) /\ UNCHANGED <<fi, ack_i>>
                     ELSE /\ pc' = AfterFrame
                          /\ fi' = (IF fi < Len(frags) THEN fi + 1 ELSE fi)
                          /\ ack_i' = 0
                          /\ Running
            ELSE IF ack_i + 1 < ACK_ATTEMPTS
                 THEN pc' = "wfa_recv" /\ ack_i' = ack_i + 1 /\ Running /\ UNCHANGED fi
                 ELSE Finish("CipNoResponseError", None, -1) /\ UNCHANGED <<fi, ack_i>>
    /\ bus' = BusAfterRecv
    /\ UNCHANGED <<call, listening, frags, result, stream, prev_counter, rf_n, dropped, codec, conv, connections, op, ops, ret, xids, hist>>

\* service_request after send_message: the event handler, then wait or return
ServiceRequestAfterSend ==
    /\ pc = "sm_done"
    /\ call.fn = "service_request"
    /\ trace' = (IF call.event_handler THEN Append(trace, Ev("hook", 0, <<>>)) ELSE trace)
    /\ IF call.wait_time # 0
       THEN pc' = "wr_recv" /\ result' = Some(<<>>) /\ Running
       ELSE Finish("return", Some(<<>>), -1) /\ UNCHANGED result
    /\ UNCHANGED <<call, listening, frags, fi, ack_i, msg_in, stream, prev_counter, rf_n, dropped, bus, codec, conv, connections, op, ops, ret, xids, hist>>

\* wait_response: one pass of its loop
WaitResponse ==
    /\ pc = "wr_recv"
    /\ \E m \in Receives(RxExplicit) :
         /\ msg_in' = m
         /\ LET r == ParseExplicitService(m.data)
                Stop(o, code) ==
                    /\ Finish(o, None, code)
                    /\ trace' = Append(trace, Rx(m))
                    /\ UNCHANGED <<result, stream, prev_counter, rf_n, dropped>>
                Got(d) ==
                    /\ pc' = "wr_done"
                    /\ result' = Some(d)
                    /\ trace' = Append(trace, Rx(m))
                    /\ Running
                    /\ UNCHANGED <<stream, prev_counter, rf_n, dropped>>
                Again ==
                    /\ pc' = "wr_recv"
                    /\ dropped' = TRUE
                    /\ Running
                    /\ UNCHANGED <<trace, result, stream, prev_counter, rf_n>>
            IN  IF ~m.some THEN Stop("CipNoResponseError", -1)
                ELSE IF ~r.ok THEN Stop("DevNetParsingError", -1)
                ELSE IF r.service_code = call.service_code
                THEN IF ~_fragmented(r) THEN Got(r.service_data)
                     ELSE IF _one_fragment(r) THEN Got(r.service_data)
                     ELSE IF _start_fragment(r)
                     THEN /\ pc' = "rf_recv"
                          /\ trace' = trace \o <<Rx(m), Tx(AckFrame(call.src_addr, call.dst_addr, 0))>>
                          /\ result' = Some(r.service_data)
                          /\ stream' = <<>>
                          /\ prev_counter' = 0
                          /\ rf_n' = 0
                          /\ Running
                          /\ UNCHANGED dropped
                     ELSE Again
                ELSE IF _bad_service(call.service_code) /\ ~_error(r)
                THEN Stop("CipServiceError", INVALID_REPLY_RECEIVED)
                ELSE IF _error(r)
                THEN IF r.service_data = <<>> THEN Stop("IndexError", -1)
                     ELSE Stop(ServiceErrorRaised(r.service_data[1]),
                               IF ServiceErrorRaised(r.service_data[1]) = "CipServiceError"
                               THEN r.service_data[1] ELSE -1)
                ELSE Again
    /\ bus' = BusAfterRecv
    /\ UNCHANGED <<call, listening, frags, fi, ack_i, codec, conv, connections, op, ops, ret, xids, hist>>

\* a read_fragment that acknowledges the next fragment only
SendsAckNextOnly(explicit, counter_diff) == explicit /\ counter_diff = 1

\* read_fragment: is ack_fragment called for a fragment with this counter_diff
SendsAck(explicit, counter_diff) == explicit /\ counter_diff \in {0, 1}

\* a read_fragment that takes the payload of every later fragment
AppendsPayloadLater(explicit, counter_diff) ==
    counter_diff >= 1 \/ (counter_diff = 0 /\ ~explicit)

\* read_fragment: is stream.extend(response.data) called for a fragment with this counter_diff
AppendsPayload(explicit, counter_diff) ==
    counter_diff = 1 \/ (counter_diff = 0 /\ ~explicit)

\* read_fragment: one pass of its loop
ReadFragment ==
    /\ pc = "rf_recv"
    /\ \E m \in Receives(IF Explicit THEN RxExplicit ELSE RxIo) :
         /\ msg_in' = m
         /\ LET r == IF Explicit THEN ParseExplicitFrag(m.data) ELSE ParseIoFrag(m.data)
                counter_diff == r.frag_count - prev_counter
                ack == IF SendsAck(Explicit, counter_diff)
                       THEN <<Tx(AckFrame(call.src_addr, call.dst_addr, r.frag_count))>>
                       ELSE <<>>
            IN  IF ~m.some
                THEN /\ pc' = "rf_done"
                     /\ trace' = Append(trace, Rx(m))
                     /\ Running
                     /\ UNCHANGED <<stream, prev_counter, rf_n>>
                ELSE IF ~r.ok
                THEN /\ Finish("DevNetParsingError", None, -1)
                     /\ trace' = Append(trace, Rx(m))
                     /\ UNCHANGED <<stream, prev_counter, rf_n>>
                ELSE /\ bus.scripted \/ rf_n < MaxFrag
                     /\ rf_n' = rf_n + 1
                     /\ stream' = (IF AppendsPayload(Explicit, counter_diff)
                                   THEN stream \o r.data ELSE stream)
                     /\ prev_counter' = (IF counter_diff = 1 THEN r.frag_count ELSE prev_counter)
                     /\ trace' = trace \o <<Rx(m)>> \o ack
                     /\ pc' = (IF _final_fragment(r) THEN "rf_done" ELSE "rf_recv")
                     /\ Running
    /\ bus' = BusAfterRecv
    /\ UNCHANGED <<call, listening, frags, fi, ack_i, result, dropped, codec, conv, connections, op, ops, ret, xids, hist>>

\* wait_response after read_fragment: result.extend(read_fragment(...)); break
WaitResponseAfterRead ==
    /\ pc = "rf_done"
    /\ call.fn = "service_request"
    /\ IF ReadFragmentResult.some
       THEN pc' = "wr_done" /\ result' = Some(result.data \o stream) /\ Running
       ELSE Finish("TypeError", None, -1) /\ UNCHANGED result
    /\ UNCHANGED <<call, listening, trace, frags, fi, ack_i, msg_in, stream, prev_counter, rf_n, dropped, bus, codec, conv, connections, op, ops, ret, xids, hist>>

\* service_request after wait_response returned: stop_listen and return
ServiceRequestReturn ==
    /\ pc = "wr_done"
    /\ listening' = listening \ {can_addr(2, 3, call.dst_addr)}
    /\ trace' = Append(trace, Ev("unlisten", can_addr(2, 3, call.dst_addr), <<>>))
    /\ Finish("return", result, -1)
    /\ UNCHANGED <<call, frags, fi, ack_i, msg_in, result, stream, prev_counter, rf_n, dropped, bus, codec, conv, connections, op, ops, ret, xids, hist>>

\* stop_listen() and return of an I/O operation
IoReturn(v) ==
    /\ listening' = {}
    /\ trace' = Append(trace, Ev("unlisten", 0, <<>>))
    /\ Finish("return", v, -1)

\* a cos_write that would wait for the ack whatever ack_sup is
WaitsForAckAlways == TRUE

\* does cos_write wait for the ack of the slave
WaitsForAck == ~call.ack_sup

\* poll_write and bitstrobe_write, up to the sending
PollWrite ==
    /\ pc = "idle"
    /\ \E fn \in {"poll_write", "bitstrobe_write"} : \E c \in PollWriteCalls(fn) :
         LET command == IoBuild(2, IF fn = "poll_write" THEN 5 ELSE 0, c.src_addr, c.dst_addr, c.data)
             can_id == can_addr(1, IF fn = "poll_write" THEN 15 ELSE 14, c.dst_addr)
         IN  /\ call' = c
             /\ listening' = listening \cup {can_id}
             /\ trace' = Append(trace, Ev("listen", can_id, <<>>))
             /\ frags' = (IF fn = "poll_write" THEN IoFrames(command, c.consumed_size)
                          ELSE <<Frame(command.can_header, command.can_data)>>)
             /\ fi' = 1
             /\ pc' = "sm_send"
    /\ Running
    /\ UNCHANGED <<ack_i, msg_in, result, stream, prev_counter, rf_n, dropped, bus, codec, conv, connections, op, ops, ret, xids, hist>>

\* poll_write and bitstrobe_write return once the command is sent; the listener stays
PollWriteReturn ==
    /\ pc = "sm_done"
    /\ call.fn \in {"poll_write", "bitstrobe_write"}
    /\ Finish("return", None, -1)
    /\ UNCHANGED <<call, listening, trace, frags, fi, ack_i, msg_in, result, stream, prev_counter, rf_n, dropped, bus, codec, conv, connections, op, ops, ret, xids, hist>>

\* the identifier poll_read and bitstrobe_read pass to interface.recv
ReadCanId == can_addr(1, IF call.fn = "poll_read" THEN 15 ELSE 14, call.dst_addr)

\* poll_read and bitstrobe_read, up to the first receive
PollRead ==
    /\ pc = "idle"
    /\ \E fn \in {"poll_read", "bitstrobe_read"} : \E c \in PollReadCalls(fn) :
         /\ call' = c
         /\ pc' = (IF fn = "poll_read" /\ c.produced_size > 8 THEN "rf_recv" ELSE "pr_recv")
    /\ Running
    /\ UNCHANGED <<listening, trace, frags, fi, ack_i, msg_in, result, stream, prev_counter, rf_n, dropped, bus, codec, conv, connections, op, ops, ret, xids, hist>>

\* poll_read and bitstrobe_read: interface.recv(can_id) of the unfragmented response
PollReadRecv ==
    /\ pc = "pr_recv"
    /\ \E m \in Recv(RxIo) :
         /\ msg_in' = m
         /\ result' = m
         /\ listening' = {}
         /\ trace' = trace \o <<[Rx(m) EXCEPT !.can_id = ReadCanId], Ev("unlisten", 0, <<>>)>>
         /\ Finish("return", m, -1)
    /\ UNCHANGED <<call, frags, fi, ack_i, stream, prev_counter, rf_n, dropped, bus, codec, conv, connections, op, ops, ret, xids, hist>>

\* poll_read after read_fragment
PollReadAfterRead ==
    /\ pc = "rf_done"
    /\ call.fn = "poll_read"
    /\ result' = ReadFragmentResult
    /\ IoReturn(ReadFragmentResult)
    /\ UNCHANGED <<call, frags, fi, ack_i, msg_in, stream, prev_counter, rf_n, dropped, bus, codec, conv, connections, op, ops, ret, xids, hist>>

\* cos_write, up to the sending of the command
CosWrite ==
    /\ pc = "idle"
    /\ \E c \in IoCalls("cos_write") :
         LET command == IoBuild(2, 5, c.src_addr, c.dst_addr, c.data)
             can_id == can_addr(1, 15, c.dst_addr)
         IN  /\ call' = c
             /\ listening' = listening \cup {can_id}
             /\ trace' = Append(trace, Ev("listen", can_id, <<>>))
             /\ frags' = IoFrames(command, c.consumed_size)
             /\ fi' = 1
             /\ pc' = "sm_send"
    /\ Running
    /\ UNCHANGED <<ack_i, msg_in, result, stream, prev_counter, rf_n, dropped, bus, codec, conv, connections, op, ops, ret, xids, hist>>

\* cos_write after the command is sent: the ack of the slave
CosWriteAfterSend ==
    /\ pc = "sm_done"
    /\ call.fn = "cos_write"
    /\ IF WaitsForAck
       THEN /\ pc' = (IF call.produced_size > 8 THEN "rf_recv" ELSE "cw_recv")
            /\ Running
            /\ UNCHANGED <<listening, trace>>
       ELSE IoReturn(None)
    /\ stream' = <<>>
    /\ prev_counter' = 0
    /\ rf_n' = 0
    /\ UNCHANGED <<call, frags, fi, ack_i, msg_in, result, dropped, bus, codec, conv, connections, op, ops, ret, xids, hist>>

\* cos_write: interface.recv of the unfragmented ack
CosWriteRecv ==
    /\ pc = "cw_recv"
    /\ \E m \in Recv(RxIo) :
         /\ msg_in' = m
         /\ IF m.some
            THEN /\ result' = Some(m.data)
                 /\ listening' = {}
                 /\ trace' = trace \o <<Rx(m), Ev("unlisten", 0, <<>>)>>
                 /\ Finish("return", Some(m.data), -1)
            ELSE /\ Finish("CipNoResponseError", None, -1)
                 /\ trace' = Append(trace, Rx(m))
                 /\ UNCHANGED <<result, listening>>
    /\ UNCHANGED <<call, frags, fi, ack_i, stream, prev_counter, rf_n, dropped, bus, codec, conv, connections, op, ops, ret, xids, hist>>

\* cos_write after read_fragment
CosWriteAfterRead ==
    /\ pc = "rf_done"
    /\ call.fn = "cos_write"
    /\ result' = ReadFragmentResult
    /\ IoReturn(ReadFragmentResult)
    /\ UNCHANGED <<call, frags, fi, ack_i, msg_in, stream, prev_counter, rf_n, dropped, bus, codec, conv, connections, op, ops, ret, xids, hist>>

\* cos_read, up to the first receive
CosRead ==
    /\ pc = "idle"
    /\ \E c \in IoCalls("cos_read") :
         LET can_id == can_addr(1, 13, c.dst_addr)
         IN  /\ call' = c
             /\ listening' = listening \cup {can_id}
             /\ trace' = Append(trace, Ev("listen", can_id, <<>>))
             /\ pc' = (IF c.produced_size > 8 THEN "rf_recv" ELSE "cr_recv")
    /\ Running
    /\ UNCHANGED <<frags, fi, ack_i, msg_in, result, stream, prev_counter, rf_n, dropped, bus, codec, conv, connections, op, ops, ret, xids, hist>>

\* cos_read: interface.recv of the unfragmented message
CosReadRecv ==
    /\ pc = "cr_recv"
    /\ \E m \in Recv(RxIo) :
         /\ msg_in' = m
         /\ result' = m
         /\ trace' = Append(trace, Rx(m))
    /\ pc' = "cr_ack"
    /\ Running
    /\ UNCHANGED <<call, listening, frags, fi, ack_i, stream, prev_counter, rf_n, dropped, bus, codec, conv, connections, op, ops, ret, xids, hist>>

\* cos_read after read_fragment
CosReadAfterRead ==
    /\ pc = "rf_done"
    /\ call.fn = "cos_read"
    /\ result' = ReadFragmentResult
    /\ pc' = "cr_ack"
    /\ Running
    /\ UNCHANGED <<call, listening, trace, frags, fi, ack_i, msg_in, stream, prev_counter, rf_n, dropped, bus, codec, conv, connections, op, ops, ret, xids, hist>>

\* cos_read: the ack to the slave, if there is data and acks are not suppressed
CosReadAck ==
    /\ pc = "cr_ack"
    /\ IF result.some /\ result.data # <<>> /\ ~call.ack_sup
       THEN /\ frags' = IoFrames(IoBuild(2, 2, call.src_addr, call.dst_addr, call.data),
                                 call.consumed_size)
            /\ fi' = 1
            /\ pc' = "sm_send"
            /\ Running
            /\ UNCHANGED <<listening, trace>>
       ELSE IoReturn(result) /\ UNCHANGED <<frags, fi>>
    /\ UNCHANGED <<call, ack_i, msg_in, result, stream, prev_counter, rf_n, dropped, bus, codec, conv, connections, op, ops, ret, xids, hist>>

\* cos_read after the ack is sent
CosReadReturn ==
    /\ pc = "sm_done"
    /\ call.fn = "cos_read"
    /\ IoReturn(result)
    /\ UNCHANGED <<call, frags, fi, ack_i, msg_in, result, stream, prev_counter, rf_n, dropped, bus, codec, conv, connections, op, ops, ret, xids, hist>>

\* build() of a packet, to_frame(), and from_frame() of the same variant on the frame
RoundTrip ==
    /\ pc = "idle"
    /\ \E v \in Packets :
         LET b == BuildPacket(v)
         IN  codec' = [packet |-> b.packet, frame |-> b.frame,
                       parsed |-> ParsePacket(v.variant, b.frame)]
    /\ Finish("return", None, -1)
    /\ UNCHANGED <<call, listening, trace, frags, fi, ack_i, msg_in, result, stream, prev_counter, rf_n, dropped, bus, connections, op, ops, ret, xids, conv, hist>>

\* can_addr of a triple, and devnet_addr of the identifier it gives
Address ==
    /\ pc = "idle"
    /\ \E t \in AddrTriples :
         LET can_id == can_addr(t[1], t[2], t[3])
         IN  conv' = [fn |-> "can_addr", input |-> t, output |-> <<can_id>>,
                      back |-> IF can_id = GroupError THEN <<>> ELSE devnet_addr(can_id)]
    /\ Finish(IF conv'.output = <<GroupError>> THEN "DevNetGroupError" ELSE "return", None, -1)
    /\ UNCHANGED <<call, listening, trace, frags, fi, ack_i, msg_in, result, stream, prev_counter, rf_n, dropped, bus, codec, connections, op, ops, ret, xids, hist>>

\* string_to_bytes of a string, and bytes_to_string of the bytes it gives
StringConvert ==
    /\ pc = "idle"
    /\ \E str \in Strings :
         conv' = [fn |-> "string_to_bytes", input |-> str, output |-> string_to_bytes(str),
                  back |-> bytes_to_string(string_to_bytes(str))]
    /\ Finish("return", None, -1)
    /\ UNCHANGED <<call, listening, trace, frags, fi, ack_i, msg_in, result, stream, prev_counter, rf_n, dropped, bus, codec, connections, op, ops, ret, xids, hist>>

----------------------------------------------------------------------------
\* The operations of the nodes and of their connection objects

\* service_request of an allocate or release, up to send_message
Exchange(c) ==
    LET request == ExplicitServiceBuild(c.group_id, c.message_id, c.src_addr, c.dst_addr, c.service_code, c.class_id, c.instance_id, c.data)
        can_id == can_addr(2, 3, c.dst_addr)
    IN  /\ call' = c
        /\ listening' = listening \cup {can_id}
        /\ trace' = <<Ev("listen", can_id, <<>>)>>
        /\ frags' = ExplicitSplit(request)
        /\ xids' = PutXid(xids, c.src_addr, c.dst_addr, XidOf(ExplicitSplit(request)[1]))
        /\ fi' = 1
        /\ pc' = "sm_send"
        /\ bus' \in NodeSlaves(c)
        /\ ack_i' = 0
        /\ msg_in' = None
        /\ result' = None
        /\ stream' = <<>>
        /\ prev_counter' = 0
        /\ rf_n' = 0
        /\ dropped' = FALSE
        /\ outcome' = "running"
        /\ retval' = None
        /\ errcode' = -1
        /\ UNCHANGED <<codec, conv>>

\* the operation ends without a further exchange
OpEnds ==
    /\ pc' = "op_done"
    /\ UNCHANGED <<call, listening, trace, frags, fi, ack_i, msg_in, result, stream, prev_counter, rf_n, dropped, bus, codec, conv, outcome, retval, errcode, xids>>

\* a new operation may start
OpStarts == pc \in {"idle", "node"} /\ ops < MaxOps

\* the first occupied entry of t above instance i, or 0
NextOccupied(t, i) ==
    IF \E j \in (i + 1)..5 : t[j] # NoConn
    THEN CHOOSE j \in (i + 1)..5 : t[j] # NoConn /\ \A k \in (i + 1)..(j - 1) : t[k] = NoConn
    ELSE 0

\* DevNetCipNode.allocate, up to send_message of devnet.allocate
NodeAllocate ==
    /\ OpStarts
    /\ \E n \in NodeAddrs, a \in NodeChoices :
         /\ connections' = NodeRegister(connections, n, a)
         /\ op' = Op("node_allocate", n, a, a)
         /\ Exchange(ObjectCall(SERVICE_ALLOCATE, n, <<a, MASTER_ADDR>>))
    /\ ret' = NoRet
    /\ UNCHANGED <<ops, hist>>

\* DevNetCipNode.release: with an alloc_choice, up to send_message of
\* devnet.release; without, up to send_message of the release of the first connection
NodeRelease ==
    /\ OpStarts
    /\ \E n \in NodeAddrs :
         \/ \E a \in NodeChoices :
              /\ op' = Op("node_release", n, a, a)
              /\ Exchange(ObjectCall(SERVICE_RELEASE, n, <<a>>))
         \/ LET i == NextOccupied(connections, 0)
            IN  IF i = 0
                THEN op' = Op("node_release_all", n, 0, 0) /\ OpEnds
                ELSE /\ op' = Op("node_release_all", n, connections[i].alloc_choice, connections[i].alloc_choice)
                     /\ Exchange(ObjectCall(SERVICE_RELEASE, connections[i].node, <<connections[i].alloc_choice>>))
    /\ ret' = NoRet
    /\ UNCHANGED <<connections, ops, hist>>

\* ConnectionObject.allocate, up to send_message
ConnAllocate ==
    /\ OpStarts
    /\ \E n \in NodeAddrs, a \in ConnObjects, ack_sup \in {0, 1} :
         /\ ack_sup = 1 => a = ALLOC_COS
         /\ op' = Op("conn_allocate", n, a, a + ack_sup * ALLOC_ACKSUP)
         /\ Exchange(ObjectCall(SERVICE_ALLOCATE, n, <<a + ack_sup * ALLOC_ACKSUP, MASTER_ADDR>>))
    /\ ret' = NoRet
    /\ UNCHANGED <<connections, ops, hist>>

\* ConnectionObject.release, up to send_message
ConnRelease ==
    /\ OpStarts
    /\ \E n \in NodeAddrs, a \in ConnObjects :
         /\ op' = Op("conn_release", n, a, a)
         /\ Exchange(ObjectCall(SERVICE_RELEASE, n, <<a>>))
    /\ ret' = NoRet
    /\ UNCHANGED <<connections, ops, hist>>

\* DeviceNetObject.allocate and release after service_request, and the return of
\* DevNetCipNode.allocate and release(alloc_choice)
DevNetReturn ==
    /\ pc = "done"
    /\ op.kind \in {"node_allocate", "node_release"}
    /\ ret' = ObjectResult(IF op.kind = "node_allocate" THEN "DeviceNetObject.allocate"
                           ELSE "DeviceNetObject.release")
    /\ OpEnds
    /\ UNCHANGED <<connections, op, ops, hist>>

\* ConnectionObject.allocate after service_request
ConnAllocateReturn ==
    /\ pc = "done"
    /\ op.kind = "conn_allocate"
    /\ ret' = ObjectResult("ConnectionObject.allocate")
    /\ connections' = ConnRegister(connections, op.node, op.alloc_choice, op.sent_choice)
    /\ OpEnds
    /\ UNCHANGED <<op, ops, hist>>

\* ConnectionObject.release after service_request; in DevNetCipNode.release()
\* the loop goes on to the next connection of the table
ConnReleaseReturn ==
    /\ pc = "done"
    /\ op.kind \in {"conn_release", "node_release_all"}
    /\ ret' = ObjectResult("ConnectionObject.release")
    /\ LET t == ConnClear(connections, op.alloc_choice)
           i == NextOccupied(t, InstanceOf(op.alloc_choice))
       IN  /\ connections' = t
           /\ IF op.kind = "node_release_all" /\ i # 0
              THEN /\ op' = Op("node_release_all", op.node, t[i].alloc_choice, t[i].alloc_choice)
                   /\ Exchange(ObjectCall(SERVICE_RELEASE, t[i].node, <<t[i].alloc_choice>>))
              ELSE UNCHANGED op /\ OpEnds
    /\ UNCHANGED <<ops, hist>>

\* the caller has the result; the next operation can start
OpClose ==
    /\ pc = "op_done"
    /\ pc' = "node"
    /\ ops' = ops + 1
    /\ hist' = Append(hist, Closed(op, outcome = "return"))
    /\ op' = NoOp
    /\ ret' = NoRet
    /\ call' = NoCall
    /\ trace' = <<>>
    /\ frags' = <<>>
    /\ fi' = 1
    /\ ack_i' = 0
    /\ msg_in' = None
    /\ result' = None
    /\ stream' = <<>>
    /\ prev_counter' = 0
    /\ rf_n' = 0
    /\ dropped' = FALSE
    /\ bus' = FreeBus
    /\ outcome' = "running"
    /\ retval' = None
    /\ errcode' = -1
    /\ UNCHANGED <<listening, codec, conv, connections, xids>>

Next ==
    \/ ServiceRequest
    \/ SendMessage
    \/ WaitFragmentAck
    \/ ServiceRequestAfterSend
    \/ WaitResponse
    \/ ReadFragment
    \/ WaitResponseAfterRead
    \/ ServiceRequestReturn
    \/ CosWrite
    \/ CosWriteAfterSend
    \/ CosWriteRecv
    \/ CosWriteAfterRead
    \/ CosRead
    \/ CosReadRecv
    \/ CosReadAfterRead
    \/ CosReadAck
    \/ CosReadReturn
    \/ RoundTrip
    \/ PollWrite
    \/ PollWriteReturn
    \/ PollRead
    \/ PollReadRecv
    \/ PollReadAfterRead
    \/ NodeAllocate
    \/ NodeRelease
    \/ ConnAllocate
    \/ ConnRelease
    \/ DevNetReturn
    \/ ConnAllocateReturn
    \/ ConnReleaseReturn
    \/ OpClose
    \/ Address
    \/ StringConvert

Spec == Init /\ [][Next]_vars

\* every receive of the interface returns within its timeout and the master runs on
FairSpec == Init /\ [][Next]_vars /\ WF_vars(Next)

----------------------------------------------------------------------------
\* Reading the trace of a call

Done == pc = "done"
Pos == 1..Len(trace)
Last == trace[Len(trace)]

IsRecv(e) == e.ev \in {"rx", "timeout"}

\* the receives of the call, in order
Recvs == SelectSeq(trace, IsRecv)

\* a frame of the request was put on the bus
IsReqFrag(e) == \E k \in 1..Len(frags) : e = Tx(frags[k])

\* the frames of the request put on the bus, in order
ReqSent == SelectSeq(trace, IsReqFrag)

\* an acknowledge of the master was put on the bus
IsAckTx(e) == \E c \in 0..FRAGMENT_MAX_COUNT : e = Tx(AckFrame(call.src_addr, call.dst_addr, c))

\* a received frame whose fragment header has the type ACK
IsFragmentAck(e) == e.ev = "rx" /\ Len(e.data) >= 2 /\ e.data[2] \div 64 = TYPE_ACK

\* a received ExplicitFragmentAck: fragFlag 1, fragment type ACK, a status byte
IsExplicitFragmentAck(e) ==
    IsFragmentAck(e) /\ e.data[1] \div 128 = FRAGMENT_ENABLED /\ Len(e.data) >= 3

\* a received ACK whose status byte is 0
IsAckOk(e) == IsFragmentAck(e) /\ Len(e.data) >= 3 /\ e.data[3] = 0

\* position j holds a receive of wait_fragment_ack: it follows a frame of the
\* request, directly or after one timeout
InAckWait(j) ==
    /\ Explicit /\ Len(frags) > 1 /\ j > 1 /\ IsRecv(trace[j])
    /\ \/ IsReqFrag(trace[j - 1])
       \/ j > 2 /\ trace[j - 1].ev = "timeout" /\ IsReqFrag(trace[j - 2])

\* position i holds a received START fragment with count 0, acknowledged at i + 1
StartedAt(i) ==
    /\ i < Len(trace) /\ trace[i].ev = "rx"
    /\ LET r == ParseExplicitService(trace[i].data)
       IN  r.ok /\ _fragmented(r) /\ _start_fragment(r)
    /\ trace[i + 1] = Tx(AckFrame(call.src_addr, call.dst_addr, 0))

RECURSIVE Flatten(_)
Flatten(ss) == IF ss = <<>> THEN <<>> ELSE Head(ss) \o Flatten(Tail(ss))

----------------------------------------------------------------------------
\* Properties

\* C1: whenever service_request (called with wait_time > 0), cos_write or cos_read
\* finishes by returning, by CipNoResponseError or by CipServiceError, the listener
\* it started has been stopped.
C1_ListenerStopped ==
    (/\ Done
     /\ Explicit => call.wait_time > 0
     /\ outcome \in {"return", "CipNoResponseError", "CipServiceError"})
    => listening = {}

InOrderResponse ==
    /\ Explicit /\ ~dropped /\ Len(Recvs) >= 2
    /\ \A k \in 1..Len(Recvs) :
         /\ Recvs[k].ev = "rx" /\ Len(Recvs[k].data) >= 2
         /\ Recvs[k].data[1] \div 128 = FRAGMENT_ENABLED
         /\ Recvs[k].data[2] = set_frag_header(SplitType(k - 1, Len(Recvs)), k - 1)
    /\ Len(Recvs[1].data) >= 3 /\ Recvs[1].data[3] = 128 + call.service_code

C5_AckStatusRejected ==
    \A j \in Pos :
        (InAckWait(j) /\ IsExplicitFragmentAck(trace[j]) /\ trace[j].data[3] # 0)
        => /\ outcome = "CipFragmentResponseError"
           /\ \A i \in (j + 1)..Len(trace) : ~IsReqFrag(trace[i])

C7_WaitResponseEnds == (pc = "wr_recv") ~> (pc # "wr_recv")

\* an ERROR response: not fragmented, response flag set, service code 0x14, an error byte
IsErrorResponse(d) == Len(d) >= 3 /\ d[1] < 128 /\ d[2] = 128 + SERVICE_ERROR

\* C8: every ERROR response received by wait_response, whatever its error byte, raises
\* CipServiceError with the code equal to that byte.
C8_ErrorRaisesServiceError ==
    [][(pc = "wr_recv" /\ msg_in'.some /\ IsErrorResponse(msg_in'.data))
       => (outcome' = "CipServiceError" /\ errcode' = msg_in'.data[3])]_vars

\* a response that is not fragmented and carries the service code of the request
IsMatchingResponse(d) == Len(d) >= 2 /\ d[1] < 128 /\ d[2] = 128 + call.service_code

\* C9: a non-fragmented response with the service code of the request makes
\* wait_response return the payload bytes from index 2 to the end, and
\* service_request returns them.
C9_ResponsePayload ==
    [][/\ (pc = "wr_recv" /\ msg_in'.some /\ IsMatchingResponse(msg_in'.data))
          => (pc' = "wr_done"
              /\ result' = Some(SubSeq(msg_in'.data, 3, Len(msg_in'.data))))
       /\ pc = "wr_done" => (outcome' = "return" /\ retval' = result)]_vars

\* C9 witness: the response 00 8E 34 12 to a GET_ATTR_SINGLE was returned as 34 12
C9_Witness ==
    /\ Done /\ outcome = "return" /\ call.service_code = SERVICE_GET_ATTR_SINGLE
    /\ msg_in = Some(<<0, 142, 52, 18>>)
    /\ retval = Some(<<52, 18>>)

\* C10: when the first response frame is a fragment of type START with count 0x3F,
\* wait_response returns its service data and the master sends exactly one ACK,
\* with count 0x3F.
C10_SingleFragmentAcked ==
    (/\ Done /\ Explicit /\ ~dropped /\ Len(Recvs) = 1
     /\ Recvs[1].ev = "rx" /\ Len(Recvs[1].data) >= 3
     /\ Recvs[1].data[1] \div 128 = FRAGMENT_ENABLED
     /\ Recvs[1].data[2] = set_frag_header(TYPE_START, FRAGMENT_MAX_COUNT)
     /\ Recvs[1].data[3] = 128 + call.service_code)
    => /\ outcome = "return"
       /\ retval = Some(PySlice(Recvs[1].data, 3, 8))
       /\ SelectSeq(trace, IsAckTx)
            = <<Tx(AckFrame(call.src_addr, call.dst_addr, FRAGMENT_MAX_COUNT))>>

\* the fragment that read_fragment receives in this step, as it parses the frame
RfFrag == IF Explicit THEN ParseExplicitFrag(msg_in'.data) ELSE ParseIoFrag(msg_in'.data)

\* this step is a pass of read_fragment's loop that receives a fragment
RfTakes == pc = "rf_recv" /\ msg_in'.some /\ RfFrag.ok

\* C11: in read_fragment a fragment whose count equals the previous count is a
\* duplicate: in explicit mode an ACK with that count is sent again and the payload
\* is not added to the buffer; in I/O mode the payload is appended and no ACK is sent;
\* prev_counter is unchanged in both modes.
C11_DuplicateFragment ==
    [][(RfTakes /\ RfFrag.frag_count = prev_counter) =>
         /\ prev_counter' = prev_counter
         /\ Explicit =>
              /\ stream' = stream
              /\ trace' = trace \o <<Rx(msg_in'),
                                     Tx(AckFrame(call.src_addr, call.dst_addr, prev_counter))>>
         /\ ~Explicit =>
              /\ stream' = stream \o SubSeq(msg_in'.data, 2, Len(msg_in'.data))
              /\ trace' = Append(trace, Rx(msg_in'))]_vars

\* C11 witness: an explicit MIDDLE fragment with count 1 came twice and was acknowledged twice
C11_Witness ==
    /\ Explicit /\ pc = "rf_recv" /\ Len(trace) > 4
    /\ trace[Len(trace) - 3] = Ev("rx", 0, <<128, 65, 18>>)
    /\ trace[Len(trace) - 2] = Tx(AckFrame(call.src_addr, call.dst_addr, 1))
    /\ trace[Len(trace) - 1] = Ev("rx", 0, <<128, 65, 86>>)
    /\ Last = Tx(AckFrame(call.src_addr, call.dst_addr, 1))
    /\ stream = <<18>> /\ prev_counter = 1

\* the frames read_fragment has received in explicit mode: the receives after the
\* acknowledged START fragment
RfReceived ==
    LET i == CHOOSE i \in Pos : StartedAt(i)
        rest == SubSeq(trace, i + 2, Len(trace))
    IN  SelectSeq(rest, IsRecv)

\* the payloads of the fragments of fs that continue the count prev by one, in order
RECURSIVE InCountOrder(_, _)
InCountOrder(fs, prev) ==
    IF fs = <<>> \/ Head(fs).ev # "rx" \/ Len(Head(fs).data) < 2 THEN <<>>
    ELSE LET d == Head(fs).data
             c == d[2] % 64
         IN  IF c - prev = 1
             THEN SubSeq(d, 3, Len(d)) \o InCountOrder(Tail(fs), c)
             ELSE InCountOrder(Tail(fs), prev)

\* C12: in read_fragment a fragment with delta > 1 leaves the buffer and prev_counter
\* unchanged and causes no ACK and no error; in explicit mode the buffer is at every
\* step the concatenation, in count order, of the payloads of the fragments taken
\* with delta = 1.
C12_LostFragment ==
    [][/\ (RfTakes /\ RfFrag.frag_count - prev_counter > 1) =>
            /\ stream' = stream /\ prev_counter' = prev_counter
            /\ trace' = Append(trace, Rx(msg_in'))
            /\ outcome' = "running"
       /\ (Explicit /\ pc' \in {"rf_recv", "rf_done"}) =>
            stream' = InCountOrder(RfReceived', 0)]_vars

\* C12 witness: the FINAL fragment with count 2 came directly after START; its
\* payload is not in the buffer
C12_Witness ==
    /\ Explicit /\ pc = "rf_done" /\ prev_counter = 0 /\ stream = <<>>
    /\ Last = Ev("rx", 0, <<128, 130, 18>>)

Hooks == { h \in Pos : trace[h].ev = "hook" }

\* the frames of the request put on the bus before position h
ReqSentBefore(h) == SelectSeq(SubSeq(trace, 1, h - 1), IsReqFrag)

\* position j holds a receive of wait_response or read_fragment
IsResponseRecv(j) == IsRecv(trace[j]) /\ ~InAckWait(j)

\* C14: in every service_request the listener is started first, then the frames of
\* the request are sent (and acknowledged, when fragmented), then the event handler
\* (if given) is invoked, then the first receive for the response is made; the
\* event handler is never invoked when the sending failed.
C14_EventOrder ==
    Explicit =>
        /\ \A j \in Pos : trace[j].ev = "listen" <=> j = 1
        /\ \A j \in Pos : IsReqFrag(trace[j]) => \A k \in Pos : IsResponseRecv(k) => j < k
        /\ \A h \in Hooks :
             /\ call.event_handler /\ Hooks = {h}
             /\ ReqSentBefore(h) = [k \in 1..Len(frags) |-> Tx(frags[k])]
             /\ \A j \in 1..(h - 1) : IsRecv(trace[j]) => InAckWait(j)
             /\ Len(frags) > 1 => IsFragmentAck(trace[h - 1])
             /\ \A j \in (h + 1)..Len(trace) : ~IsReqFrag(trace[j]) /\ ~InAckWait(j)
        /\ (call.event_handler /\ \E k \in Pos : IsResponseRecv(k)) => Hooks # {}
        /\ (Done /\ outcome # "return" /\ InAckWait(Len(trace))) => Hooks = {}

\* C14 witness: a request of two fragments, the event handler, then the response
C14_Witness ==
    /\ Done /\ Explicit /\ outcome = "return" /\ call.event_handler
    /\ Len(frags) = 2 /\ Len(trace) = 8
    /\ trace[6].ev = "hook" /\ trace[7].ev = "rx" /\ IsFragmentAck(trace[5])

\* how often frame k of the request was put on the bus
TimesSent(k) == Cardinality({ j \in Pos : trace[j] = Tx(frags[k]) })

\* the sending of the request is over without a failure
SendComplete ==
    \/ pc \in {"sm_done", "wr_recv", "rf_recv", "rf_done", "wr_done"}
    \/ Done /\ outcome = "return"
    \/ Done /\ \E j \in Pos : trace[j].ev = "hook" \/ IsResponseRecv(j)

\* C15: service_request puts every frame of the request on the bus at most once,
\* and exactly once when the sending is over; after a receive timeout, an error
\* response or a missing fragment ACK no frame of the request is sent again.
C15_NoRetransmission ==
    Explicit =>
        /\ \A k \in 1..Len(frags) : TimesSent(k) <= 1
        /\ SendComplete => \A k \in 1..Len(frags) : TimesSent(k) = 1
        /\ Done => \A k \in 1..Len(frags) : TimesSent(k) <= 1
        /\ Cardinality({ j \in Pos : IsReqFrag(trace[j]) }) <= Len(frags)

\* C15 witness: the response timed out; the request went out once
C15_Witness ==
    /\ Done /\ Explicit /\ outcome = "CipNoResponseError" /\ Len(frags) = 1
    /\ IsResponseRecv(Len(trace)) /\ Last.ev = "timeout"
    /\ TimesSent(1) = 1

----------------------------------------------------------------------------
\* Fragmentation: the frames split() made of the message of the call

\* split() fragmented the message of the call
IsSplit == Len(frags) > 1

\* the data split() cut into blocks: the message body, or the I/O data
SplitData ==
    IF Explicit
    THEN generate_message_body(call.service_code, call.class_id, call.instance_id, call.data)
    ELSE call.data

\* data bytes of one block
BlockSize == IF Explicit THEN EXPLICIT_DATA_LENGTH ELSE IO_DATA_LENGTH

\* the fragment header byte of frame k, and the block behind it
FragByte(k) == IF Explicit THEN frags[k].data[2] ELSE frags[k].data[1]
FragBlock(k) ==
    IF Explicit THEN SubSeq(frags[k].data, 3, Len(frags[k].data))
    ELSE SubSeq(frags[k].data, 2, Len(frags[k].data))

\* fragType and fragCount as a receiver reads them off the byte
WireType(k) == (FragByte(k) \div 64) % 4
WireCount(k) == FragByte(k) % 64

\* C16: in every message that split() fragments, the first fragment has fragType
\* START and fragCount 0, every fragment between the first and the last has fragType
\* MIDDLE and a count one above its predecessor's (modulo 64), the last has fragType
\* FINAL, every block has at most 6 (explicit) or 7 (I/O) bytes, and the blocks in
\* order make up the original data.
C16_SplitStructure ==
    IsSplit =>
        LET n == Len(frags)
        IN  /\ WireType(1) = TYPE_START /\ WireCount(1) = 0
            /\ \A k \in 2..(n - 1) :
                   WireType(k) = TYPE_MIDDLE /\ WireCount(k) = (WireCount(k - 1) + 1) % 64
            /\ WireType(n) = TYPE_FINAL
            /\ \A k \in 1..n : Len(FragBlock(k)) <= BlockSize
            /\ Flatten([k \in 1..n |-> FragBlock(k)]) = SplitData

\* the least number of blocks of k bytes that hold n bytes
CeilDiv(n, k) == CHOOSE m \in 0..n : m * k >= n /\ (m - 1) * k < n

\* the call is the SET_ATTR_SINGLE request with a value of 12 bytes
SetTwelve == Explicit /\ call.service_code = SERVICE_SET_ATTR_SINGLE /\ Len(call.data) = 12

\* type, count and number of data bytes of the fragments of the message
FragShape == [k \in 1..Len(frags) |-> <<WireType(k), WireCount(k), Len(FragBlock(k))>>]

\* C17 as stated: an explicit service payload (the service data) of L bytes yields
\* ceil(L/6) fragments, an I/O payload of L bytes ceil(L/7), and the SET_ATTR_SINGLE
\* request with a 12-byte value yields two fragments: START 0 and FINAL 1, 6 bytes each.
C17_FragmentCountOfPayload ==
    /\ (Explicit /\ IsSplit) => Len(frags) = CeilDiv(Len(call.data), EXPLICIT_DATA_LENGTH)
    /\ (~Explicit /\ IsSplit) => Len(frags) = CeilDiv(Len(call.data), IO_DATA_LENGTH)
    /\ SetTwelve => FragShape = << <<TYPE_START, 0, 6>>, <<TYPE_FINAL, 1, 6>> >>

\* C17, amended: an explicit message whose body (service header, class ID, instance
\* ID and service data) has L bytes goes out as one frame when L <= 7 and as ceil(L/6)
\* fragments otherwise; I/O data of L bytes that split() fragments yields ceil(L/7)
\* fragments; the SET_ATTR_SINGLE request with a 12-byte value has a body of 15 bytes
\* and yields three fragments: START 0 and MIDDLE 1 with 6 bytes, FINAL 2 with 3 bytes.
C17_FragmentCountOfBody ==
    /\ Explicit =>
           Len(frags) = IF Len(SplitData) <= 7 THEN 1
                        ELSE CeilDiv(Len(SplitData), EXPLICIT_DATA_LENGTH)
    /\ (~Explicit /\ IsSplit) => Len(frags) = CeilDiv(Len(call.data), IO_DATA_LENGTH)
    /\ SetTwelve =>
           FragShape = << <<TYPE_START, 0, 6>>, <<TYPE_MIDDLE, 1, 6>>, <<TYPE_FINAL, 2, 3>> >>

\* C17 witness: the 12-byte SET_ATTR_SINGLE request was split and its first fragment sent
C17_Witness ==
    /\ SetTwelve /\ Len(frags) = 3 /\ Len(SplitData) = 15
    /\ Len(trace) = 2 /\ Last = Tx(frags[1])

\* the slave answered the request with the frames split() made of its payload
Echoed == Explicit /\ bus.scripted /\ call # LongCall

\* C18: when the frames that split() makes of a fragmented explicit service message
\* are fed in order into wait_response and read_fragment, the request returns the
\* service data of that message.
C18_SplitReassembled ==
    (Done /\ Echoed) => (outcome = "return" /\ retval = Some(bus.payload))

\* C19: in every frame of an explicit request that build() made, bit 7 of byte 0 is
\* fragFlag (set in the fragments of a split message only), bit 6 is xid (0) and
\* bits 5..0 hold the MAC that is not in the CAN identifier: for the group-2
\* message-4 request the source MAC.
C19_MessageHeaderByte ==
    Explicit =>
        \A k \in 1..Len(frags) :
            LET b == frags[k].data[1]
            IN  /\ (b \div 128) % 2 = (IF IsSplit THEN FRAGMENT_ENABLED ELSE 0)
                /\ (b \div 64) % 2 = 0
                /\ b % 64 = call.src_addr

\* a packet was built and parsed back
RoundTripped == codec.packet.variant # "none"

\* C20: for every packet variant and every valid field assignment, parsing the frame
\* that build() and to_frame() produce succeeds and yields a packet equal to the
\* original in all fields.
C20_RoundTrip ==
    RoundTripped => (codec.parsed.ok /\ codec.parsed = codec.packet)

\* the MAC in the CAN identifier of the frame that was built
EmbeddedMac == devnet_addr(codec.frame.can_id)[3]

\* C21: in every packet that is built, of group 2 with a message ID in 0..7, the MAC
\* in the CAN identifier is the source MAC iff the message ID is 0 or 3 and the
\* destination MAC otherwise; in groups 1 and 3 it is the source MAC; build_can_header
\* and the sequence set_group_id .. set_dst_mac give the same identifier.
C21_EmbeddedMac ==
    RoundTripped =>
        LET v == codec.packet
        IN  /\ devnet_addr(codec.frame.can_id)[1] = v.group_id
            /\ devnet_addr(codec.frame.can_id)[2] = v.message_id
            /\ v.group_id = 2 =>
                   EmbeddedMac = (IF v.message_id \in {0, 3} THEN v.src_mac ELSE v.dst_mac)
            /\ v.group_id \in {1, 3} => EmbeddedMac = v.src_mac
            /\ build_can_header(v.group_id, v.message_id, v.src_mac, v.dst_mac)
                   = set_mac_can_header(v.group_id, v.message_id, v.src_mac, v.dst_mac)

\* C21 witness: a group-2 response (message ID 3) from MAC 5 to MAC 1 carries MAC 5
C21_Witness ==
    /\ RoundTripped /\ codec.packet.group_id = 2 /\ codec.packet.message_id = 3
    /\ codec.packet.src_mac = 5 /\ codec.packet.dst_mac = 1 /\ EmbeddedMac = 5

\* position of the first frame put on the bus
FirstTx == CHOOSE j \in Pos : trace[j].ev = "tx" /\ \A i \in 1..(j - 1) : trace[i].ev # "tx"

C22_WitnessAllocate ==
    /\ Explicit /\ call.service_code = SERVICE_ALLOCATE /\ call.dst_addr = 63
    /\ Len(trace) = 2 /\ Last.ev = "tx" /\ Last.can_id = 1534


----------------------------------------------------------------------------
\* the identifiers of the I/O operations

\* message group and message ID of a CAN identifier
RouteOf(can_id) == <<devnet_addr(can_id)[1], devnet_addr(can_id)[2]>>

IsTx(e) == e.ev = "tx"

\* the frames put on the bus, in order
Sent == SelectSeq(trace, IsTx)

\* group and message ID of the frames put on the bus, of the identifiers listened
\* on, and of the identifiers handed to interface.recv
SentRoutes == { RouteOf(trace[j].can_id) : j \in { i \in Pos : trace[i].ev = "tx" } }
ListenRoutes == { RouteOf(trace[j].can_id) : j \in { i \in Pos : trace[i].ev = "listen" } }
RecvRoutes == { RouteOf(trace[j].can_id) : j \in { i \in Pos : IsRecv(trace[i]) } }

\* an I/O operation that awaits on the identifier a and sends on the identifier s
IoRoutes(fn, a, s) ==
    (call.fn = fn /\ pc # "idle") => (ListenRoutes = {a} /\ SentRoutes \subseteq {s})

\* poll_read and bitstrobe_read receive an unfragmented response on the identifier a
ReadRoute(fn, a) == (call.fn = fn /\ Done /\ call.produced_size <= 8) => RecvRoutes = {a}

\* C23 (as the code has it): poll request on group 2 msg 5 and poll response on
\* group 1 msg 15; bit-strobe request on group 2 msg 0 and response on group 1
\* msg 14; cos_write sends its request on group 2 msg 5 and awaits the ack of the
\* slave on group 1 msg 15; cos_read receives the request of the slave on group 1
\* msg 13 and sends its ack on group 2 msg 2.
C23_IoIdentifiers ==
    /\ IoRoutes("poll_write", <<1, 15>>, <<2, 5>>)
    /\ ReadRoute("poll_read", <<1, 15>>)
    /\ IoRoutes("bitstrobe_write", <<1, 14>>, <<2, 0>>)
    /\ ReadRoute("bitstrobe_read", <<1, 14>>)
    /\ IoRoutes("cos_write", <<1, 15>>, <<2, 5>>)
    /\ IoRoutes("cos_read", <<1, 13>>, <<2, 2>>)
    /\ (Done /\ call.fn \in {"poll_write", "bitstrobe_write", "cos_write"}) => SentRoutes # {}

\* C23 as stated: as above, but cos_write awaits its ack on group 2 msg 2 and
\* cos_read sends its ack on group 1 msg 15.
C23_IoIdentifiersAsStated ==
    /\ IoRoutes("poll_write", <<1, 15>>, <<2, 5>>)
    /\ ReadRoute("poll_read", <<1, 15>>)
    /\ IoRoutes("bitstrobe_write", <<1, 14>>, <<2, 0>>)
    /\ ReadRoute("bitstrobe_read", <<1, 14>>)
    /\ IoRoutes("cos_write", <<2, 2>>, <<2, 5>>)
    /\ IoRoutes("cos_read", <<1, 13>>, <<1, 15>>)

\* cos_read has received the message of the slave and sent its ack
C23_Witness == Done /\ call.fn = "cos_read" /\ SentRoutes = {<<2, 2>>}

\* cos_write has sent its request and received the ack of the slave
C23_WitnessWrite ==
    Done /\ call.fn = "cos_write" /\ retval.some /\ ListenRoutes = {<<1, 15>>}

\* the first byte of an I/O fragment k of n: type by position, count k - 1
IsIoFragment(d, k, n) ==
    /\ Len(d) \in 1..MAX_PACKET_SIZE
    /\ d[1] % 64 = (k - 1) % 64
    /\ d[1] \div 64 = (IF k = 1 THEN TYPE_START ELSE IF k = n THEN TYPE_FINAL ELSE TYPE_MIDDLE)

\* C24: when poll_write or cos_write has sent its command: consumed size <= 8 -
\* exactly one plain I/O frame holding the data; consumed size > 8 and fewer than 7
\* bytes - one START frame with count 0x3F followed by the data; consumed size > 8
\* otherwise - the frames of the split: each starts with a fragment header (type by
\* position, count by position) and their blocks make up the data.
C24_IoFraming ==
    (Done /\ call.fn \in {"poll_write", "cos_write"}) =>
        IF call.consumed_size <= 8
        THEN Len(Sent) = 1 /\ Sent[1].data = call.data
        ELSE IF Len(call.data) < 7
        THEN Len(Sent) = 1 /\ Sent[1].data = <<IoFragHeader(TYPE_START, FRAGMENT_MAX_COUNT)>> \o call.data
        ELSE /\ \A k \in 1..Len(Sent) : IsIoFragment(Sent[k].data, k, Len(Sent))
             /\ Flatten([k \in 1..Len(Sent) |-> Tail(Sent[k].data)]) = call.data


\* the payload of the last receive: None on timeout
LastRecv == LET e == Recvs[Len(Recvs)] IN IF e.ev = "rx" THEN Some(e.data) ELSE None

C25_WitnessRead ==
    Done /\ call.fn = "cos_read" /\ call.ack_sup /\ retval.some /\ retval.data # <<>>

\* cos_write with ack_sup clear has returned the payload of the ack
C25_WitnessAck ==
    Done /\ call.fn = "cos_write" /\ ~call.ack_sup /\ retval.some /\ retval.data # <<>>


----------------------------------------------------------------------------
\* the connection table

\* an operation of a node or connection object has returned to its caller
OpDone == pc = "op_done"

\* the allocate or release of the object answered with success
Succeeded == ret.result = Some(<<0>>)

\* the connection bits of an alloc_choice
ConnBits == {ALLOC_EXPLICIT, ALLOC_POLL, ALLOC_BITSTROBE, ALLOC_MPOLL, ALLOC_COS, ALLOC_CYCLIC}

\* the instances that the connection bits of an alloc_choice stand for: the instance
\* of each bit, and instance 2 with COS and CYCLIC
InstancesOf(alloc_choice) ==
    { InstanceOf(b) : b \in { x \in ConnBits : HasBit(alloc_choice, x) } }
    \cup (IF HasBit(alloc_choice, ALLOC_COS) \/ HasBit(alloc_choice, ALLOC_CYCLIC) THEN {2} ELSE {})

\* C26: when ConnectionObject.allocate or DevNetCipNode.allocate has returned after
\* a successful exchange, every instance of the allocation choice holds a connection
\* of the node - the instance of each connection bit, and instance 2 (poll) with COS
\* or CYCLIC; after allocating EXPLICIT|POLL the entries 1 and 2 are occupied.
C26_AllocateRegisters ==
    (OpDone /\ op.kind \in {"conn_allocate", "node_allocate"} /\ Succeeded) =>
        /\ \A i \in InstancesOf(op.sent_choice) : connections[i].node = op.node
        /\ op.kind = "conn_allocate" =>
               connections[InstanceOf(op.alloc_choice)] = Conn(op.node, op.alloc_choice)
        /\ op.sent_choice = ALLOC_EXPLICIT + ALLOC_POLL =>
               (connections[1] # NoConn /\ connections[2] # NoConn)

\* the COS connection object of a node has been allocated with success
C26_Witness ==
    OpDone /\ op.kind = "conn_allocate" /\ op.alloc_choice = ALLOC_COS /\ Succeeded

\* a node has allocated EXPLICIT|POLL with success
C26_WitnessNode ==
    OpDone /\ op.kind = "node_allocate" /\ op.sent_choice = ALLOC_EXPLICIT + ALLOC_POLL /\ Succeeded

\* C27: when a release has returned - ConnectionObject.release, DevNetCipNode.release
\* with an alloc_choice or without - the entries of the released connections are
\* empty, for COS and CYCLIC also entry 2, whatever the slave answered.
C27_ReleaseClears ==
    (OpDone /\ op.kind \in {"conn_release", "node_release", "node_release_all"}) =>
        IF op.kind = "node_release_all" THEN connections = NoConnections
        ELSE \A i \in InstancesOf(op.sent_choice) : connections[i] = NoConn

\* C28: an allocate or release of one node leaves the table entries that the
\* objects of every other node observe as they were.
C28_PerNodeTable ==
    [][\A n \in NodeAddrs : (op'.kind # "none" /\ op'.node # n) => TableOf(n)' = TableOf(n)]_vars

\* C29: when allocate or release of a connection object or of the DeviceNet object
\* has returned: it gave 0 if the exchange succeeded, the error byte of the slave if
\* the slave answered with an ERROR response, and raised CipNoResponseError if the
\* slave did not answer.
C29_ObjectResult ==
    (OpDone /\ ret.fn # "none") =>
        /\ outcome = "return" => (ret.exc = "none" /\ ret.result = Some(<<0>>))
        /\ outcome = "CipServiceError" => (ret.exc = "none" /\ ret.result = Some(<<errcode>>))
        /\ outcome = "CipNoResponseError" => ret.exc = "CipNoResponseError"

\* a service_request starts
RequestStarts == pc \in {"idle", "node", "done"} /\ pc' = "sm_send" /\ call'.fn = "service_request"

\* C30: a service request carries an xid that differs from the xid of the previous
\* request of the same master to the same slave.
C30_XidToggles ==
    [][RequestStarts =>
          \A x \in xids : (x[1] = call'.src_addr /\ x[2] = call'.dst_addr) => XidOf(frags'[1]) # x[3]]_vars


----------------------------------------------------------------------------
\* addressing and conversions

\* C31 (as the code has it): devnet_addr(can_addr(g, m, a)) = (g, m, a) for every
\* valid triple of the groups 1, 2 and 3; an identifier of group 4 carries no MAC
\* address, and devnet_addr(can_addr(4, m, a)) = (4, m, 0) for m in 0..47.
C31_AddressRoundTrip ==
    LET t == conv.input
        valid == /\ t[3] \in 0..63
                 /\ \/ t[1] = 1 /\ t[2] \in 0..15
                    \/ t[1] = 2 /\ t[2] \in 0..7
                    \/ t[1] = 3 /\ t[2] \in 0..6
                    \/ t[1] = 4 /\ t[2] \in 0..47
    IN  (conv.fn = "can_addr" /\ valid) =>
            /\ conv.output # <<GroupError>>
            /\ conv.back = (IF t[1] = 4 THEN <<4, t[2], 0>> ELSE t)

\* C31 as stated: devnet_addr(can_addr(g, m, a)) = (g, m, a) for every valid
\* triple, group 4 with m in 0..47 included.
C31_AddressRoundTripAsStated ==
    LET t == conv.input
        valid == /\ t[3] \in 0..63
                 /\ \/ t[1] = 1 /\ t[2] \in 0..15
                    \/ t[1] = 2 /\ t[2] \in 0..7
                    \/ t[1] = 3 /\ t[2] \in 0..6
                    \/ t[1] = 4 /\ t[2] \in 0..47
    IN  (conv.fn = "can_addr" /\ valid) => conv.back = t

\* the identifier of group 3, message ID 6, MAC 63 was made and taken apart
C31_Witness == conv.fn = "can_addr" /\ conv.input = <<3, 6, 63>> /\ conv.back = <<3, 6, 63>>

\* C32: can_addr fails with GroupError for every triple outside the valid ranges
\* (group not in 1..4, message ID above 15, 7, 6, 47 in the groups 1, 2, 3, 4, MAC
\* outside 0..63), and never gives an identifier in 0x7F0..0x7FF.
C32_GroupError ==
    LET t == conv.input
        valid == /\ t[3] \in 0..63
                 /\ \/ t[1] = 1 /\ t[2] \in 0..15
                    \/ t[1] = 2 /\ t[2] \in 0..7
                    \/ t[1] = 3 /\ t[2] \in 0..6
                    \/ t[1] = 4 /\ t[2] \in 0..47
    IN  conv.fn = "can_addr" =>
            /\ ~valid => conv.output = <<GroupError>>
            /\ conv.output[1] \notin 2032..2047

\* C33: string_to_bytes gives at most 255 elements: one byte in 0..255 that equals
\* the number of bytes following it, then UTF-8 bytes, also for strings above 254
\* bytes; bytes_to_string(string_to_bytes(s)) = s for every s of at most 254 bytes
\* that does not end in NUL.
C33_StringBytes ==
    conv.fn = "string_to_bytes" =>
        /\ Len(conv.output) \in 1..255
        /\ conv.output[1] \in 0..255
        /\ conv.output[1] = Len(conv.output) - 1
        /\ \A k \in 2..Len(conv.output) : conv.output[k] \in 0..255
        /\ (Len(Utf8Encode(conv.input)) <= 254
            /\ (conv.input = <<>> \/ conv.input[Len(conv.input)] # 0)) => conv.back = conv.input


\* C34: in every message that split() fragments, explicit or I/O, the fragment
\* header byte of every frame is in 0..255, its type bits hold the type split() gave
\* the fragment (START first, FINAL last, MIDDLE between), and no fragment before the
\* last carries the count 0x3F.
C34_FragmentHeaderFields ==
    IsSplit =>
        \A k \in 1..Len(frags) :
            /\ FragByte(k) \in 0..255
            /\ WireType(k) = SplitType(k - 1, Len(frags))
            /\ k < Len(frags) => WireCount(k) # FRAGMENT_MAX_COUNT


\* C35: every frame that service_request puts on the bus is a valid CAN frame, for
\* service codes up to 0x7F and class and instance IDs up to 0xFFFF: the identifier
\* is in 0..0x7FF, the payload has at most 8 elements and each element is in 0..255.
C35_ValidCanFrames ==
    (call.fn = "service_request" /\ call.service_code <= 127
        /\ call.class_id <= 65535 /\ call.instance_id <= 65535) =>
        \A i \in Pos : IsTx(trace[i]) =>
            /\ trace[i].can_id \in 0..2047
            /\ Len(trace[i].data) <= 8
            /\ \A j \in 1..Len(trace[i].data) : trace[i].data[j] \in 0..255


\* read_fragment of an I/O read (produced size above 8) has received, as its first
\* frame, a START fragment with the count 0x3F and a payload
IoSingleFragmentFirst ==
    /\ call.fn \in {"poll_read", "cos_read"} /\ call.produced_size > 8
    /\ pc # "idle" /\ Len(Recvs) >= 1
    /\ Recvs[1].ev = "rx" /\ Len(Recvs[1].data) >= 2
    /\ Recvs[1].data[1] = IoFragHeader(TYPE_START, FRAGMENT_MAX_COUNT)

\* C36: in an I/O read of a produced size above 8, when the first frame that
\* read_fragment receives is a START fragment with the count 0x3F, read_fragment
\* receives no further frame and returns the payload of that frame.
C36_IoSingleFragment ==
    IoSingleFragmentFirst =>
        /\ pc # "rf_recv"
        /\ Len(Recvs) = 1
        /\ pc = "rf_done" => ReadFragmentResult = Some(PySlice(Recvs[1].data, 1, 8))


\* a DupMacPacket was built
DupMacBuilt == codec.packet.variant = "DupMac"

\* the payload of a duplicate MAC check message, byte by byte
DupMacBytes(p) ==
    <<p.rr_flag * 128 + p.physical_port,
      p.vendor_id % 256, p.vendor_id \div 256,
      p.serial_number % 256, (p.serial_number \div 256) % 256,
      (p.serial_number \div 65536) % 256, p.serial_number \div 16777216>>

C38_AckCountMatches ==
    (Explicit /\ Len(frags) > 1) =>
        \A i \in Pos : \A k \in 2..Len(frags) :
            (i >= 2 /\ trace[i] = Tx(frags[k]) /\ trace[i - 1].ev = "rx"
                /\ trace[i - 1].data \in AckFrames) =>
                ParseExplicitFrag(trace[i - 1].data).frag_count = frags[k - 1].data[2] % 64


\* C40: when the first allocate of a run - of a connection object or of a node - has
\* returned after the slave answered with an ERROR response or did not answer, the
\* connection table is as it was before the call: empty.
C40_FailedAllocateNoEntry ==
    (OpDone /\ ops = 0 /\ op.kind \in {"conn_allocate", "node_allocate"}
        /\ outcome \in {"CipServiceError", "CipNoResponseError"}) =>
        connections = NoConnections


\* the connections <<node, alloc_choice>> allocated and not yet released after the
\* operations h on connection objects: granted by the slave on allocate, given up
\* when release has returned
RECURSIVE AllocatedAfter(_)
AllocatedAfter(h) ==
    IF h = <<>> THEN {}
    ELSE LET e == h[Len(h)]
             before == AllocatedAfter(SubSeq(h, 1, Len(h) - 1))
         IN  IF e.kind = "conn_allocate" /\ e.ok THEN before \cup {<<e.node, e.alloc_choice>>}
             ELSE IF e.kind = "conn_release" THEN before \ {<<e.node, e.alloc_choice>>}
             ELSE before

\* only the poll and COS connection objects of one node were allocated and released,
\* and the slave granted every allocate
IoObjectsOfOneNode ==
    /\ hist # <<>>
    /\ \A i \in 1..Len(hist) :
         /\ hist[i].kind \in {"conn_allocate", "conn_release"}
         /\ hist[i].kind = "conn_allocate" => hist[i].ok
         /\ hist[i].alloc_choice \in {ALLOC_POLL, ALLOC_COS}
         /\ hist[i].node = hist[1].node

\* C39: after any sequence of granted allocate calls and of release calls on the poll
\* and COS connection objects of one node, entry 2 of the table is occupied exactly when a
\* poll or COS connection is allocated and not yet released; so the release of a
\* COS connection does not empty entry 2 while a poll connection is allocated.
C39_PollEntryTracksAllocation ==
    (pc = "node" /\ IoObjectsOfOneNode) =>
        (connections[2] # NoConn <=> AllocatedAfter(hist) # {})

====
